---- MODULE Spec2Model ----
(***************************************************************************)
(* Model of the mars-tokenomics-api indexing pipeline:                     *)
(*   DataFetcher (fetchWithRetry, the four source fetches, fetchAllData),  *)
(*   ValidationService (validateData, createFallbackData),                 *)
(*   StorageService (storeData, getData, dataExistsForDate, getDataRange,  *)
(*   getAllData), the three indexing entry points (cron handler, hourly    *)
(*   handler, manual script) and the read endpoint.                        *)
(*                                                                         *)
(* Numbers.  JavaScript numbers are modelled as integers in fixed units:   *)
(*   prices and USD amounts in units of 1e-5 USD (UNIT), token quantities  *)
(*   in whole tokens, raw chain balances in 1e-6 token.  NaN is the one    *)
(*   value that stands for JavaScript's undefined / NaN / null in a        *)
(*   numeric position: every comparison with it is false and arithmetic    *)
(*   on it yields it again.                                                *)
(***************************************************************************)
EXTENDS Integers, Sequences, FiniteSets, TLC

VARIABLES
    fr,        \* per source: the state of its fetchWithRetry call
    src,       \* per source: the settled result of its fetch* method
    agg,       \* the fetchAllData call: Promise.all over the four sources
    run,       \* per invocation of the indexing operation: its position and locals
    store,     \* the blob store: a set of blobs [pathname, content]
    clock,     \* the wall clock (it advances with every invocation)
    puts,      \* every put the store accepted, in order: [by, pathname, content]
    call       \* the latest direct call of a service method or of the read endpoint

fetchVars == <<fr, src, agg>>
indexVars == <<run, store, clock, puts>>
vars == <<fr, src, agg, run, store, clock, puts, call>>

-----------------------------------------------------------------------------
(* Program constants                                                       *)

MAX_RETRIES == 3
RETRY_DELAY == 1000
BACKOFF_MULTIPLIER == 2
MARS_DECIMALS == 6
MARS_DENOM == "factory/neutron1ndu2wvkrxtane8se2tr48gv7nsm46y5gcqjhux/MARS"
MARS_SYMBOL == "MARS"

\* undefined / NaN / null in a numeric position
NaN == -999999999

\* an absent error message, as a template literal renders it
Undef == "undefined"

UNIT == 100000          \* model units per USD
CENT == 1000            \* model units per cent

RECURSIVE Pow(_, _)
Pow(b, e) == IF e = 0 THEN 1 ELSE b * Pow(b, e - 1)

IsNum(x) == x # NaN

\* Math.round(x * 100) / 100 on an amount in model units (round half up)
RoundCents(x) == IF IsNum(x) THEN ((x + (CENT \div 2)) \div CENT) * CENT ELSE NaN

\* a * b on JavaScript numbers; one factor is a price in model units
Mul(a, b) == IF IsNum(a) /\ IsNum(b) THEN a * b ELSE NaN

\* truthiness of a JavaScript number (0, NaN, undefined and null are falsy)
TruthyNum(x) == IsNum(x) /\ x # 0

\* truthiness of a decimal string held as its integer value ("0" is truthy)
TruthyStr(x) == IsNum(x)

-----------------------------------------------------------------------------
(* The four sources and what an HTTP attempt can bring                     *)

Sources == {"burned", "treasury", "price", "liquidity"}

SourceOrder == <<"burned", "treasury", "price", "liquidity">>

Label(s) ==
    CASE s = "burned"    -> "Burned supply"
      [] s = "treasury"  -> "Treasury supply"
      [] s = "price"     -> "Price"
      [] s = "liquidity" -> "Liquidity"

\* A parsed response body.  shape: "json" (the expected shape), "null" (a
\* falsy payload) or "malformed" (an object without the expected container).
NoBody == [shape |-> "none", balances |-> <<>>, usd |-> NaN, pools |-> <<>>]

WalletBody(bals) == [shape |-> "json", balances |-> bals, usd |-> NaN, pools |-> <<>>]
PriceBody(p)     == [shape |-> "json", balances |-> <<>>, usd |-> p, pools |-> <<>>]
PoolsBody(ps)    == [shape |-> "json", balances |-> <<>>, usd |-> NaN, pools |-> ps]
NullBody         == [NoBody EXCEPT !.shape = "null"]
MalformedBody    == [NoBody EXCEPT !.shape = "malformed"]

Bal(d, a) == [denom |-> d, amount |-> a]
Asset(d, sy) == [denom |-> d, symbol |-> sy]
Pool(as, liq) == [assets |-> as, totalLiquidityUSD |-> liq]

\* One HTTP attempt's outcome.
\*   ok       2xx and the parser returned body
\*   status   non-2xx: Error(`HTTP ${status}: ${statusText}`)
\*   abort    the 10 s timer aborted the request (AbortError)
\*   error    fetch or the parser threw an Error with message msg
\*   nonerror something that is not an Error was thrown
Ok(body)    == [kind |-> "ok", msg |-> "", body |-> body]
Fail(k, m)  == [kind |-> k, msg |-> m, body |-> NoBody]

Timeout     == Fail("abort", "This operation was aborted")
NetworkErr  == Fail("error", "Network error")
ParseErr    == Fail("error", "Unexpected token < in JSON at position 0")
Http500     == Fail("status", "HTTP 500: Internal Server Error")
Http429     == Fail("status", "HTTP 429: Too Many Requests")
NonError    == Fail("nonerror", "")

\* bodies a source can answer with (a small, varied menu per source)
Bodies(s) ==
    CASE s = "burned" ->
           { WalletBody(<<Bal(MARS_DENOM, 5500000)>>),
             WalletBody(<<Bal("untrn", 7), Bal(MARS_DENOM, 1999999)>>),
             WalletBody(<<>>), MalformedBody }
      [] s = "treasury" ->
           { WalletBody(<<Bal(MARS_DENOM, 15000000)>>),
             WalletBody(<<Bal("untrn", 7)>>), NullBody }
      [] s = "price" ->
           { PriceBody(15000), PriceBody(20000), PriceBody(NaN), NullBody }
      [] s = "liquidity" ->
           { PoolsBody(<<Pool(<<Asset(MARS_DENOM, "MARS"), Asset("untrn", "NTRN")>>, 100 * UNIT),
                         Pool(<<Asset("uatom", "ATOM")>>, 5 * UNIT),
                         Pool(<<Asset("x", "MARS")>>, 1234)>>),
             PoolsBody(<<>>), MalformedBody }

\* every way an attempt can fail
Failures == {Timeout, NetworkErr, ParseErr, Http500, Http429, NonError}

\* the outcomes of an attempt when one fetch method is called on its own
RichOutcomes(s) == Failures \cup {Ok(b) : b \in Bodies(s)}

\* the failure each source shows when the four run together (one per source,
\* all different, so that an entry under the wrong label would be seen)
OwnFailure(s) ==
    CASE s = "burned"    -> Timeout
      [] s = "treasury"  -> NetworkErr
      [] s = "price"     -> Http500
      [] s = "liquidity" -> Http429

BasicOutcomes(s) == {OwnFailure(s)} \cup {Ok(b) : b \in Bodies(s)}

-----------------------------------------------------------------------------
(* DataFetcher.fetchWithRetry                                              *)

\* the catch block's choice of lastError
AttemptError(o) ==
    CASE o.kind = "abort"    -> "Request timeout (10s)"
      [] o.kind = "nonerror" -> "Unknown error"
      [] OTHER               -> o.msg

Success(d)  == [success |-> TRUE, data |-> d, error |-> Undef]
Failure(e)  == [success |-> FALSE, data |-> NoBody, error |-> e]

\* the state of a call before its first attempt
RetryStart ==
    [pc |-> "fetch", attempt |-> 1, lastError |-> "", calls |-> 0,
     delays |-> <<>>, log |-> <<>>, result |-> Failure("")]

RetryIdle == [RetryStart EXCEPT !.pc = "idle"]

\* (mutant) the same wait after every failed attempt
BackoffDelayConstant(attempt) == RETRY_DELAY

\* the wait after failed attempt number attempt
BackoffDelay(attempt) == RETRY_DELAY * Pow(BACKOFF_MULTIPLIER, attempt - 1)

\* (mutant) the first attempt's error is returned instead of the last one's
ExhaustedResultFirstError(st) == Failure(AttemptError(st.log[1]))

\* what the call returns once the loop is left without a success
ExhaustedResult(st) == Failure(st.lastError)

\* (mutant) an off-by-one loop bound: a fourth attempt follows the third
MayRetryOffByOne(attempt) == attempt <= MAX_RETRIES

\* whether a failed attempt is followed by another one
MayRetry(attempt) == attempt < MAX_RETRIES

\* One iteration of the loop on outcome o: return on success; otherwise set
\* lastError and either sleep before the next attempt or leave the loop.
\* calls counts the HTTP requests made, log lists the attempts' outcomes in
\* order.
AttemptStep(st, o) ==
    IF o.kind = "ok"
    THEN [st EXCEPT !.pc = "done", !.calls = @ + 1, !.log = Append(@, o),
                    !.result = Success(o.body)]
    ELSE LET failed == [st EXCEPT !.calls = @ + 1,
                                  !.lastError = AttemptError(o),
                                  !.log = Append(@, o)]
         IN  IF MayRetry(st.attempt)
             THEN [failed EXCEPT !.pc = "sleep",
                                 !.delays = Append(@, BackoffDelay(st.attempt))]
             ELSE [failed EXCEPT !.pc = "done", !.result = ExhaustedResult(failed)]

\* the backoff timer fires: the loop goes to its next iteration
WakeStep(st) == [st EXCEPT !.pc = "fetch", !.attempt = @ + 1]

-----------------------------------------------------------------------------
(* The four fetch methods: what each makes of fetchWithRetry's result      *)

Idle         == [status |-> "idle", data |-> NaN, error |-> Undef]
Pending      == [status |-> "pending", data |-> NaN, error |-> Undef]
SrcOk(d)     == [status |-> "ok", data |-> d, error |-> Undef]
SrcFailed(e) == [status |-> "failed", data |-> NaN, error |-> e]
SrcThrown    == [status |-> "thrown", data |-> NaN, error |-> "TypeError"]

\* BigInt division truncates toward zero
normalizeAmount(amount, decimals) ==
    IF amount >= 0 THEN amount \div Pow(10, decimals)
    ELSE -((-amount) \div Pow(10, decimals))

\* Array.prototype.find: the first MARS balance, if any
MarsBalances(bals) == SelectSeq(bals, LAMBDA b : b.denom = MARS_DENOM)

fetchWalletBalance(result) ==
    IF result.success /\ result.data.shape # "null"
    THEN IF result.data.shape = "malformed" THEN SrcThrown
         ELSE IF MarsBalances(result.data.balances) # <<>>
              THEN SrcOk(normalizeAmount(Head(MarsBalances(result.data.balances)).amount,
                                         MARS_DECIMALS))
              ELSE SrcOk(0)
    ELSE SrcFailed(result.error)

\* (mutant) the price field is read without being looked for
fetchMarsPriceUnchecked(result) ==
    IF result.success /\ result.data.shape # "null"
    THEN SrcOk(result.data.usd)
    ELSE SrcFailed(IF result.error = Undef THEN "Price data not available"
                   ELSE result.error)

fetchMarsPrice(result) ==
    IF result.success /\ TruthyNum(result.data.usd)
    THEN SrcOk(result.data.usd)
    ELSE SrcFailed(IF result.error = Undef THEN "Price data not available"
                   ELSE result.error)

IsMarsPool(pool) ==
    \E i \in 1..Len(pool.assets) :
        pool.assets[i].denom = MARS_DENOM \/ pool.assets[i].symbol = MARS_SYMBOL

RECURSIVE SumLiquidity(_)
SumLiquidity(pools) ==
    IF pools = <<>> THEN 0
    ELSE Head(pools).totalLiquidityUSD + SumLiquidity(Tail(pools))

fetchOnChainLiquidity(result) ==
    IF result.success /\ result.data.shape # "null"
    THEN IF result.data.shape = "malformed" THEN SrcThrown
         ELSE SrcOk(SumLiquidity(SelectSeq(result.data.pools, IsMarsPool)))
    ELSE SrcFailed(result.error)

\* the fetch method of source s applied to its fetchWithRetry result
FetchMethod(s, result) ==
    CASE s \in {"burned", "treasury"} -> fetchWalletBalance(result)
      [] s = "price"                  -> fetchMarsPrice(result)
      [] s = "liquidity"              -> fetchOnChainLiquidity(result)

-----------------------------------------------------------------------------
(* DailyTokenomicsData and DataFetcher.fetchAllData                        *)

\* the calendar day the model runs in (days are numbered)
Today == 3

\* A record.  The fields total_supply, circulating_supply and their _usd
\* values are not fields of DailyTokenomicsData; ValidationService reads and
\* writes them all the same, and finds them undefined.
Rec(date, burned, treasury, price, liq, busd, tusd, updated) ==
    [date |-> date,
     total_supply |-> NaN, circulating_supply |-> NaN,
     burned_supply |-> burned, treasury_supply |-> treasury,
     price_usd |-> price, on_chain_liquidity_usd |-> liq,
     total_supply_usd |-> NaN, circulating_supply_usd |-> NaN,
     burned_supply_usd |-> busd, treasury_supply_usd |-> tusd,
     updated_at |-> updated]

NoRecord == Rec(0, NaN, NaN, NaN, NaN, NaN, NaN, NaN)

\* A message: a text and, for the error of fetchAllData ("Failed to fetch: "
\* followed by the entries "<label>: <message>" joined by ", "), its entries
Msg(text) == [text |-> text, entries |-> <<>>]
NoError == Msg("")
Entry(s, msg) == [label |-> Label(s), msg |-> msg]

RECURSIVE FailureEntries(_, _)
FailureEntries(order, res) ==
    IF order = <<>> THEN <<>>
    ELSE (IF res[Head(order)].status # "ok"
          THEN <<Entry(Head(order), res[Head(order)].error)>> ELSE <<>>)
         \o FailureEntries(Tail(order), res)

\* (mutant) only the first failure is reported
fetchAllDataFirstFailureOnly(res, date, now) ==
    LET failures == FailureEntries(SourceOrder, res) IN
    IF Len(failures) > 0
    THEN [success |-> FALSE, data |-> NoRecord,
          error |-> [text |-> "Failed to fetch", entries |-> <<Head(failures)>>]]
    ELSE [success |-> TRUE,
          data |-> Rec(date, res["burned"].data, res["treasury"].data,
                       res["price"].data,
                       RoundCents(res["liquidity"].data),
                       RoundCents(Mul(res["burned"].data, res["price"].data)),
                       RoundCents(Mul(res["treasury"].data, res["price"].data)),
                       now),
          error |-> NoError]

\* the body of fetchAllData after the four results have arrived
fetchAllData(res, date, now) ==
    LET failures == FailureEntries(SourceOrder, res) IN
    IF Len(failures) > 0
    THEN [success |-> FALSE, data |-> NoRecord,
          error |-> [text |-> "Failed to fetch", entries |-> failures]]
    ELSE [success |-> TRUE,
          data |-> Rec(date, res["burned"].data, res["treasury"].data,
                       res["price"].data,
                       RoundCents(res["liquidity"].data),
                       RoundCents(Mul(res["burned"].data, res["price"].data)),
                       RoundCents(Mul(res["treasury"].data, res["price"].data)),
                       now),
          error |-> NoError]

NoResult == [success |-> FALSE, data |-> NoRecord, error |-> NoError]

Settled(r) == r.status \in {"ok", "failed"}

\* Promise.all over the four fetch methods: it rejects as soon as one of them
\* throws and resolves, running the rest of fetchAllData, once all four have
\* a result.
\* (mutant) fail-fast: the join also ends as soon as one source has failed
PromiseAllFailFast(res) ==
    \/ \E s \in Sources : res[s].status = "failed"
    \/ \A s \in Sources : Settled(res[s])

PromiseAllReady(res) == \A s \in Sources : Settled(res[s])

Join(a, res, date, now) ==
    IF a.state # "pending" THEN a
    ELSE IF \E s \in Sources : res[s].status = "thrown"
         THEN [state |-> "rejected", result |-> NoResult]
         ELSE IF PromiseAllReady(res)
              THEN [state |-> "resolved", result |-> fetchAllData(res, date, now)]
              ELSE a

-----------------------------------------------------------------------------
(* StorageService                                                          *)

FILE_PREFIX == "daily-data"

\* `${FILE_PREFIX}-${date}.json`
getFileName(date) == <<FILE_PREFIX, "-", date, ".json">>

Blob(pathname, content) == [pathname |-> pathname, content |-> content]

HasBlob(st, pathname) == \E b \in st : b.pathname = pathname

ContentOf(st, pathname) == (CHOOSE b \in st : b.pathname = pathname).content

\* (mutant) a put that adds a blob without replacing the one of that name
putKeepingOld(st, pathname, content) == st \cup {Blob(pathname, content)}

\* put(fileName, json, {addRandomSuffix: false, allowOverwrite: true})
put(st, pathname, content) ==
    {b \in st : b.pathname # pathname} \cup {Blob(pathname, content)}

\* JSON.stringify followed by JSON.parse: a number stays, NaN and undefined
\* come back as null / absent, which reads as NaN again
JsonValue(x) == IF IsNum(x) THEN x ELSE NaN

JsonRoundTrip(rec) == [f \in DOMAIN rec |-> JsonValue(rec[f])]

\* { ...data, updated_at: data.updated_at || new Date().toISOString() }
dataWithTimestamp(data, now) ==
    [data EXCEPT !.updated_at = IF TruthyStr(@) THEN @ ELSE now]

\* what storeData writes for data at time now
StoredContent(data, now) == JsonRoundTrip(dataWithTimestamp(data, now))

\* (mutant) an overwrite keeps the updated_at already in the store
storeDataKeepingFirstTimestamp(st, data, now, putOk) ==
    IF ~putOk THEN st
    ELSE IF HasBlob(st, getFileName(data.date))
    THEN put(st, getFileName(data.date),
             [StoredContent(data, now) EXCEPT
                !.updated_at = ContentOf(st, getFileName(data.date)).updated_at])
    ELSE put(st, getFileName(data.date), StoredContent(data, now))

\* (mutant) a record already stored for the date is not overwritten
storeDataFirstWriteWins(st, data, now, putOk) ==
    IF putOk /\ ~HasBlob(st, getFileName(data.date))
    THEN put(st, getFileName(data.date), StoredContent(data, now))
    ELSE st

\* storeData: the store after the call (putOk: whether put succeeded)
storeData(st, data, now, putOk) ==
    IF putOk THEN put(st, getFileName(data.date), StoredContent(data, now)) ELSE st

\* storeData: its result
storeDataResult(putOk) ==
    IF putOk THEN [success |-> TRUE, error |-> NoError]
    ELSE [success |-> FALSE, error |-> Msg("Blob store error")]

\* getData: head(fileName), then a GET of https://vercel.com/blob/<fileName>,
\* an address that is not the url put returned for the blob (readOk: whether
\* head answered and that GET brought the record)
getData(st, date, readOk) ==
    IF HasBlob(st, getFileName(date)) /\ readOk
    THEN [success |-> TRUE, data |-> ContentOf(st, getFileName(date))]
    ELSE [success |-> FALSE, data |-> NoRecord]

\* (mutant) a lookup that fails reads as a record that is there
dataExistsForDatePresentOnError(st, date, headOk) ==
    HasBlob(st, getFileName(date)) \/ ~headOk

\* dataExistsForDate: true when head answers, false when it throws (headOk:
\* whether the lookup itself worked)
dataExistsForDate(st, date, headOk) == HasBlob(st, getFileName(date)) /\ headOk

\* the date part of a blob's file name (getDateFromBlob)
getDateFromBlob(b) == b.pathname[3]

\* blobs.sort((a, b) => dateB.localeCompare(dateA)): newest file name first
RECURSIVE SortBlobsDesc(_)
SortBlobsDesc(bs) ==
    IF bs = {} THEN <<>>
    ELSE LET newest == CHOOSE b \in bs :
                          \A c \in bs : getDateFromBlob(c) <= getDateFromBlob(b)
         IN <<newest>> \o SortBlobsDesc(bs \ {newest})

\* the order of a listing: by file name, oldest date first
RECURSIVE SortBlobsAsc(_)
SortBlobsAsc(bs) ==
    IF bs = {} THEN <<>>
    ELSE LET newest == CHOOSE b \in bs :
                          \A c \in bs : getDateFromBlob(c) <= getDateFromBlob(b)
         IN SortBlobsAsc(bs \ {newest}) \o <<newest>>

\* data.sort((a, b) => new Date(b.date) - new Date(a.date)): a stable
\* insertion of each record before the first one that is not newer
RECURSIVE SortDataDesc(_)
SortDataDesc(data) ==
    IF data = <<>> THEN <<>>
    ELSE LET rec    == data[Len(data)]
             sorted == SortDataDesc(SubSeq(data, 1, Len(data) - 1))
             before == SelectSeq(sorted, LAMBDA x : x.date >= rec.date)
             after  == SelectSeq(sorted, LAMBDA x : x.date < rec.date)
         IN before \o <<rec>> \o after

\* the blobs whose name starts with the prefix
ListBlobs(st) == {b \in st : b.pathname[1] = FILE_PREFIX}

\* one call of list({prefix, cursor}): the store delivers its listing in
\* pages of pageSize blobs, by file name; cursor is the number of blobs the
\* pages before held (0: no cursor), and the cursor returned is 0 on the
\* last page
ListPage(st, pageSize, cursor) ==
    LET listing == SortBlobsAsc(ListBlobs(st))
        last    == IF cursor + pageSize < Len(listing) THEN cursor + pageSize
                   ELSE Len(listing)
    IN [blobs |-> SubSeq(listing, cursor + 1, last),
        cursor |-> IF last < Len(listing) THEN last ELSE 0]

\* the first page and, while (cursor), the pages after it
RECURSIVE ListAllPages(_, _, _)
ListAllPages(st, pageSize, cursor) ==
    LET page == ListPage(st, pageSize, cursor)
    IN IF page.cursor # 0
       THEN page.blobs \o ListAllPages(st, pageSize, page.cursor)
       ELSE page.blobs

Range(q) == {q[i] : i \in 1..Len(q)}

RangeFailure(text) == [success |-> FALSE, data |-> <<>>, error |-> Msg(text)]

\* the content reads of the chosen blobs, joined by Promise.all (unreadable:
\* the dates of the blobs whose GET fails)
ReadBlobs(blobs, unreadable) ==
    IF \E i \in 1..Len(blobs) : getDateFromBlob(blobs[i]) \in unreadable
    THEN RangeFailure("Failed to fetch data from blob")
    ELSE [success |-> TRUE,
          data |-> SortDataDesc([i \in 1..Len(blobs) |-> blobs[i].content]),
          error |-> NoError]

\* (mutant) the oldest blobs are taken
getDataRangeOldest(st, days, pageSize, listOk, unreadable) ==
    IF ~listOk THEN RangeFailure("Blob store error")
    ELSE IF ListPage(st, pageSize, 0).blobs = <<>>
    THEN RangeFailure("No data found in storage")
    ELSE LET sortedBlobs == SortBlobsDesc(Range(ListAllPages(st, pageSize, 0)))
             recentBlobs == SubSeq(sortedBlobs,
                                   IF days < Len(sortedBlobs)
                                   THEN Len(sortedBlobs) - days + 1 ELSE 1,
                                   Len(sortedBlobs))
         IN IF Len(recentBlobs) = 0
            THEN RangeFailure("Insufficient data available for requested range")
            ELSE ReadBlobs(recentBlobs, unreadable)

\* getDataRange(days) (listOk: whether every list call answered)
getDataRange(st, days, pageSize, listOk, unreadable) ==
    IF ~listOk THEN RangeFailure("Blob store error")
    ELSE IF ListPage(st, pageSize, 0).blobs = <<>>
    THEN RangeFailure("No data found in storage")
    ELSE LET sortedBlobs == SortBlobsDesc(Range(ListAllPages(st, pageSize, 0)))
             \* sortedBlobs.slice(0, days), days >= 0
             recentBlobs == SubSeq(sortedBlobs, 1,
                                   IF days < Len(sortedBlobs) THEN days
                                   ELSE Len(sortedBlobs))
         IN IF Len(recentBlobs) = 0
            THEN RangeFailure("Insufficient data available for requested range")
            ELSE ReadBlobs(recentBlobs, unreadable)

\* getAllData(): one list call; the blobs of its page, in the order listed
getAllData(st, pageSize, listOk, unreadable) ==
    IF ~listOk THEN RangeFailure("Blob store error")
    ELSE IF ListPage(st, pageSize, 0).blobs = <<>>
    THEN RangeFailure("No data found in storage")
    ELSE ReadBlobs(ListPage(st, pageSize, 0).blobs, unreadable)

-----------------------------------------------------------------------------
(* ValidationService                                                       *)

MAX_DAILY_CHANGE_PERCENT == 50
MIN_PRICE_USD == 10                \* 0.0001 USD in model units
MAX_PRICE_USD == 1000 * UNIT
MIN_SUPPLY == 1000000
MAX_SUPPLY_THOUSANDS == 100000000  \* MAX_SUPPLY = 100000000000 tokens

\* (mutants) the comparisons include equality
LtOrEqual(a, b) == IsNum(a) /\ IsNum(b) /\ a <= b
GtOrEqual(a, b) == IsNum(a) /\ IsNum(b) /\ a >= b

Lt(a, b) == IsNum(a) /\ IsNum(b) /\ a < b
Gt(a, b) == IsNum(a) /\ IsNum(b) /\ a > b

Abs(x) == IF x < 0 THEN -x ELSE x

\* x > MAX_SUPPLY
ExceedsMaxSupply(x) ==
    IsNum(x) /\ (\/ x \div 1000 > MAX_SUPPLY_THOUSANDS
                 \/ (x \div 1000 = MAX_SUPPLY_THOUSANDS /\ x % 1000 > 0))

\* d * 100 > t * b for d, b, t >= 0, without leaving 32 bits
HundredTimesExceeds(d, t, b) == d > t * (b \div 100) + (t * (b % 100)) \div 100

\* (mutant) a change of exactly the threshold counts as beyond it
AbsPercentChangeAtLeast(oldValue, newValue, threshold) ==
    IF ~IsNum(oldValue) THEN FALSE
    ELSE IF oldValue = 0 THEN (IF newValue = 0 THEN 0 >= threshold ELSE 100 >= threshold)
    ELSE IF ~IsNum(newValue) THEN FALSE
    ELSE HundredTimesExceeds(Abs(newValue - oldValue) + 1, threshold, Abs(oldValue))

\* (mutant) a change from 0 counts as no change
AbsPercentChangeFromZeroIgnored(oldValue, newValue, threshold) ==
    IF ~IsNum(oldValue) THEN FALSE
    ELSE IF oldValue = 0 THEN 0 > threshold
    ELSE IF ~IsNum(newValue) THEN FALSE
    ELSE HundredTimesExceeds(Abs(newValue - oldValue), threshold, Abs(oldValue))

\* Math.abs(calculatePercentChange(oldValue, newValue)) > threshold
AbsPercentChangeExceeds(oldValue, newValue, threshold) ==
    IF ~IsNum(oldValue) THEN FALSE
    ELSE IF oldValue = 0 THEN (IF newValue = 0 THEN 0 > threshold ELSE 100 > threshold)
    ELSE IF ~IsNum(newValue) THEN FALSE
    ELSE HundredTimesExceeds(Abs(newValue - oldValue), threshold, Abs(oldValue))

\* (Math.abs(expected - actual) / expected) * 100 > 1
UsdMismatch(expected, actual) ==
    /\ IsNum(expected)
    /\ IsNum(actual)
    /\ \/ expected > 0 /\ Abs(expected - actual) > expected \div 100
       \/ expected = 0 /\ Abs(expected - actual) > 0

If(cond, text) == IF cond THEN <<Msg(text)>> ELSE <<>>

validateBasicValues(data) ==
       If(Lt(data.price_usd, MIN_PRICE_USD), "Price too low")
    \o If(Gt(data.price_usd, MAX_PRICE_USD), "Price too high")
    \o If(Lt(data.total_supply, MIN_SUPPLY), "Total supply too low")
    \o If(ExceedsMaxSupply(data.total_supply), "Total supply too high")
    \o If(Gt(data.circulating_supply, data.total_supply),
          "Circulating supply cannot exceed total supply")
    \o If(Lt(data.burned_supply, 0) \/ Lt(data.treasury_supply, 0)
             \/ Lt(data.circulating_supply, 0),
          "Supply values cannot be negative")
    \o If(Lt(data.on_chain_liquidity_usd, 0), "On-chain liquidity cannot be negative")
    \o If(UsdMismatch(Mul(data.total_supply, data.price_usd), data.total_supply_usd),
          "USD value calculation mismatch")

\* (mutant) a liquidity change beyond the threshold is an error as well
validateChangesErrorsWithLiquidity(current, previous) ==
       If(AbsPercentChangeExceeds(previous.price_usd, current.price_usd,
                                  MAX_DAILY_CHANGE_PERCENT),
          "Extreme price change")
    \o If(AbsPercentChangeExceeds(previous.total_supply, current.total_supply,
                                  MAX_DAILY_CHANGE_PERCENT),
          "Extreme total supply change")
    \o If(AbsPercentChangeExceeds(previous.circulating_supply, current.circulating_supply,
                                  MAX_DAILY_CHANGE_PERCENT),
          "Extreme circulating supply change")
    \o If(AbsPercentChangeExceeds(previous.on_chain_liquidity_usd,
                                  current.on_chain_liquidity_usd,
                                  MAX_DAILY_CHANGE_PERCENT * 2),
          "Extreme liquidity change")
    \o If(current.price_usd = 0 /\ Gt(previous.price_usd, 0), "Price dropped to zero")
    \o If(current.total_supply = 0 /\ Gt(previous.total_supply, 0),
          "Total supply dropped to zero")

\* (mutant) the checks for suspicious zero values are missing
validateChangesErrorsWithoutZeroCheck(current, previous) ==
       If(AbsPercentChangeExceeds(previous.price_usd, current.price_usd,
                                  MAX_DAILY_CHANGE_PERCENT),
          "Extreme price change")
    \o If(AbsPercentChangeExceeds(previous.total_supply, current.total_supply,
                                  MAX_DAILY_CHANGE_PERCENT),
          "Extreme total supply change")
    \o If(AbsPercentChangeExceeds(previous.circulating_supply, current.circulating_supply,
                                  MAX_DAILY_CHANGE_PERCENT),
          "Extreme circulating supply change")

validateChangesErrors(current, previous) ==
       If(AbsPercentChangeExceeds(previous.price_usd, current.price_usd,
                                  MAX_DAILY_CHANGE_PERCENT),
          "Extreme price change")
    \o If(AbsPercentChangeExceeds(previous.total_supply, current.total_supply,
                                  MAX_DAILY_CHANGE_PERCENT),
          "Extreme total supply change")
    \o If(AbsPercentChangeExceeds(previous.circulating_supply, current.circulating_supply,
                                  MAX_DAILY_CHANGE_PERCENT),
          "Extreme circulating supply change")
    \o If(current.price_usd = 0 /\ Gt(previous.price_usd, 0), "Price dropped to zero")
    \o If(current.total_supply = 0 /\ Gt(previous.total_supply, 0),
          "Total supply dropped to zero")

\* (mutant) the liquidity threshold is not doubled
validateChangesWarningsSingleThreshold(current, previous) ==
       If(/\ ~AbsPercentChangeExceeds(previous.price_usd, current.price_usd,
                                      MAX_DAILY_CHANGE_PERCENT)
          /\ AbsPercentChangeExceeds(previous.price_usd, current.price_usd,
                                     MAX_DAILY_CHANGE_PERCENT \div 2),
          "Large price change")
    \o If(AbsPercentChangeExceeds(previous.on_chain_liquidity_usd,
                                  current.on_chain_liquidity_usd,
                                  MAX_DAILY_CHANGE_PERCENT),
          "Large liquidity change")

validateChangesWarnings(current, previous) ==
       If(/\ ~AbsPercentChangeExceeds(previous.price_usd, current.price_usd,
                                      MAX_DAILY_CHANGE_PERCENT)
          /\ AbsPercentChangeExceeds(previous.price_usd, current.price_usd,
                                     MAX_DAILY_CHANGE_PERCENT \div 2),
          "Large price change")
    \o If(AbsPercentChangeExceeds(previous.on_chain_liquidity_usd,
                                  current.on_chain_liquidity_usd,
                                  MAX_DAILY_CHANGE_PERCENT * 2),
          "Large liquidity change")

\* whether the result of validateData counts as valid
IsValid(errors) == Len(errors) = 0

\* (mutant) warnings block validity too
validateDataWarningsBlock(current, previous) ==
    LET errors == validateBasicValues(current)
                  \o (IF previous.success
                      THEN validateChangesErrors(current, previous.data) ELSE <<>>)
        warnings == IF previous.success
                    THEN validateChangesWarnings(current, previous.data) ELSE <<>>
    IN [isValid |-> IsValid(errors) /\ Len(warnings) = 0,
        errors |-> errors, warnings |-> warnings]

\* (mutant) a record that cannot be compared with the previous day is invalid
validateDataNeedingPrevious(current, previous) ==
    LET errors == validateBasicValues(current)
                  \o (IF previous.success
                      THEN validateChangesErrors(current, previous.data)
                      ELSE <<Msg("No previous data to compare with")>>)
        warnings == IF previous.success
                    THEN validateChangesWarnings(current, previous.data) ELSE <<>>
    IN [isValid |-> IsValid(errors), errors |-> errors, warnings |-> warnings]

\* validateData(currentData, previousData?): previous is the result of the
\* read of the previous day's record (success = a record was supplied)
validateData(current, previous) ==
    LET errors == validateBasicValues(current)
                  \o (IF previous.success
                      THEN validateChangesErrors(current, previous.data) ELSE <<>>)
        warnings == IF previous.success
                    THEN validateChangesWarnings(current, previous.data) ELSE <<>>
    IN [isValid |-> IsValid(errors), errors |-> errors, warnings |-> warnings]

NoValidation == [isValid |-> FALSE, errors |-> <<>>, warnings |-> <<>>]

\* the day before date
PreviousDate(date) == date - 1

\* (mutant) the newest record of the two days before date is taken
getValidationContextReachingBack(st, date, readOk) ==
    IF HasBlob(st, getFileName(PreviousDate(date)))
    THEN getData(st, PreviousDate(date), readOk)
    ELSE getData(st, PreviousDate(PreviousDate(date)), readOk)

\* getValidationContext(date): the previous day's record, or null
getValidationContext(st, date, readOk) == getData(st, PreviousDate(date), readOk)

\* (mutant) the previous day's value is never taken
OrNumWithoutFallback(a, b) == a

\* (mutant) a value that is present is kept, 0 included
OrNumByPresence(a, b) == IF IsNum(a) THEN a ELSE b

\* a || b on string fields and on number fields
OrStr(a, b) == IF TruthyStr(a) THEN a ELSE b
OrNum(a, b) == IF TruthyNum(a) THEN a ELSE b

\* (mutant) USD values present in failedData are kept
FallbackRecordCopyingUsd(date, failedData, previousData) ==
    LET total    == OrStr(failedData.total_supply, previousData.total_supply)
        circ     == OrStr(failedData.circulating_supply, previousData.circulating_supply)
        burned   == OrStr(failedData.burned_supply, previousData.burned_supply)
        treasury == OrStr(failedData.treasury_supply, previousData.treasury_supply)
        price    == OrNum(failedData.price_usd, previousData.price_usd)
        liq      == OrNum(failedData.on_chain_liquidity_usd,
                          previousData.on_chain_liquidity_usd)
    IN [date |-> date,
        total_supply |-> total, circulating_supply |-> circ,
        burned_supply |-> burned, treasury_supply |-> treasury,
        price_usd |-> price, on_chain_liquidity_usd |-> liq,
        total_supply_usd |-> Mul(total, price),
        circulating_supply_usd |-> Mul(circ, price),
        burned_supply_usd |-> OrNum(failedData.burned_supply_usd, Mul(burned, price)),
        treasury_supply_usd |-> OrNum(failedData.treasury_supply_usd, Mul(treasury, price)),
        updated_at |-> NaN]

\* the record createFallbackData builds from failedData and previousData
FallbackRecord(date, failedData, previousData) ==
    LET total    == OrStr(failedData.total_supply, previousData.total_supply)
        circ     == OrStr(failedData.circulating_supply, previousData.circulating_supply)
        burned   == OrStr(failedData.burned_supply, previousData.burned_supply)
        treasury == OrStr(failedData.treasury_supply, previousData.treasury_supply)
        price    == OrNum(failedData.price_usd, previousData.price_usd)
        liq      == OrNum(failedData.on_chain_liquidity_usd,
                          previousData.on_chain_liquidity_usd)
    IN [date |-> date,
        total_supply |-> total, circulating_supply |-> circ,
        burned_supply |-> burned, treasury_supply |-> treasury,
        price_usd |-> price, on_chain_liquidity_usd |-> liq,
        total_supply_usd |-> Mul(total, price),
        circulating_supply_usd |-> Mul(circ, price),
        burned_supply_usd |-> Mul(burned, price),
        treasury_supply_usd |-> Mul(treasury, price),
        updated_at |-> NaN]

\* (mutant) without a previous day's record the candidate alone is returned
createFallbackDataFromCandidate(date, failedData, previous) ==
    [success |-> TRUE,
     data |-> FallbackRecord(date, failedData,
                             IF previous.success THEN previous.data ELSE NoRecord),
     usedFallback |-> TRUE, error |-> NoError]

\* createFallbackData(date, failedData), given the read of the previous day
createFallbackData(date, failedData, previous) ==
    IF ~previous.success
    THEN [success |-> FALSE, data |-> NoRecord, usedFallback |-> FALSE,
          error |-> Msg("No previous data available for fallback")]
    ELSE [success |-> TRUE, data |-> FallbackRecord(date, failedData, previous.data),
          usedFallback |-> TRUE, error |-> NoError]

\* the empty candidate {}
EmptyCandidate == NoRecord

-----------------------------------------------------------------------------
(* The indexing operation: its invocations and their locals               *)

Runs == {1, 2}

\* cron: pages/api/cron/index-data.ts; hourly: the handler revision that
\* refreshes the day's record on every call; manual: scripts/manual-index.ts
Entries == {"cron", "hourly", "manual"}

Methods == {"GET", "POST", "PUT", "OPTIONS"}

\* res.status(status).json({success, date, message, usedFallback?, warnings?,
\* errors?, executionTime?}); body: whether a JSON body was sent at all
\* (mutant) no response carries the execution time
ResponseWithoutTime(status, success, date, message, usedFallback, warnings, errors, time) ==
    [status |-> status, body |-> TRUE, success |-> success, date |-> date,
     message |-> message, usedFallback |-> usedFallback, warnings |-> warnings,
     errors |-> errors, executionTime |-> FALSE]

Response(status, success, date, message, usedFallback, warnings, errors, time) ==
    [status |-> status, body |-> TRUE, success |-> success, date |-> date,
     message |-> message, usedFallback |-> usedFallback, warnings |-> warnings,
     errors |-> errors, executionTime |-> time]

NoResponse ==
    [status |-> 0, body |-> FALSE, success |-> FALSE, date |-> 0, message |-> "",
     usedFallback |-> FALSE, warnings |-> <<>>, errors |-> <<>>,
     executionTime |-> FALSE]

\* res.status(200).end()
EmptyResponse == [NoResponse EXCEPT !.status = 200]

\* the manual script answers nobody: it logs what a handler would send
\* (the finally block always logs the execution time)
ManualLog(resp) == [resp EXCEPT !.status = 0, !.body = FALSE, !.executionTime = TRUE]

RunIdle ==
    [pc |-> "idle", entry |-> "", force |-> FALSE, today |-> 0,
     existedAtStart |-> FALSE, lookupFailed |-> FALSE, dataExists |-> FALSE,
     fetchResult |-> NoResult, previousData |-> NoRecord,
     hasPrevious |-> FALSE, validation |-> NoValidation, candidate |-> NoRecord,
     toStore |-> NoRecord, kind |-> "", nFetch |-> 0, nPut |-> 0, stored |-> FALSE,
     out |-> NoResponse]

\* the locals of an invocation that has returned are gone (existedAtStart
\* only records, for the properties, whether the day's record was in the
\* store when the invocation began)
Forget(st) == IF st.pc = "done" THEN [RunIdle EXCEPT !.pc = "gone"] ELSE st

\* (mutant) the response is never sent: the invocation stays where it is
RespondNever(st, resp) == st

\* the invocation ends with response resp
Respond(st, resp) ==
    [st EXCEPT !.pc = "done",
               !.out = IF st.entry = "manual" THEN ManualLog(resp) ELSE resp]

\* the records a store can hold before the day's first invocation
SeedPrevious ==
    Rec(PreviousDate(Today), 5, 15, 15000, 100 * UNIT,
        RoundCents(5 * 15000), RoundCents(15 * 15000), 0)

SeedOlder ==
    Rec(PreviousDate(PreviousDate(Today)), 5, 15, 14000, 90 * UNIT,
        RoundCents(5 * 14000), RoundCents(15 * 14000), 0)

SeedBlob(rec) == Blob(getFileName(rec.date), JsonRoundTrip(rec))

InitialStores ==
    { {}, {SeedBlob(SeedOlder)}, {SeedBlob(SeedPrevious)},
      {SeedBlob(SeedOlder), SeedBlob(SeedPrevious)} }

FetchIdle ==
    /\ fr = [s \in Sources |-> RetryIdle]
    /\ src = [s \in Sources |-> Idle]
    /\ agg = [state |-> "none", result |-> NoResult]

IndexIdle ==
    /\ run = [r \in Runs |-> RunIdle]
    /\ clock = 0
    /\ puts = <<>>

\* no method of the validation service has been called directly
NoPrevious == [success |-> FALSE, data |-> NoRecord]

NoFallback ==
    [success |-> FALSE, data |-> NoRecord, usedFallback |-> FALSE, error |-> NoError]

NoRange == [success |-> FALSE, data |-> <<>>, error |-> NoError]

NoReply == [status |-> 0, body |-> FALSE, error |-> "", message |-> NoError,
            series |-> <<>>, meta |-> [last_updated |-> 0, total_records |-> 0,
                                       days_requested |-> 0]]

NoCall ==
    [op |-> "none", date |-> 0, current |-> NoRecord, previous |-> NoPrevious,
     validation |-> NoValidation, fallback |-> NoFallback,
     method |-> "", days |-> "", pageSize |-> 0, listOk |-> FALSE,
     unreadable |-> {},
     range |-> NoRange, reply |-> NoReply]

CallIdle == call = NoCall

-----------------------------------------------------------------------------
(* The fetch layer as a state machine                                      *)

InitFetch ==
    /\ FetchIdle
    /\ IndexIdle
    /\ CallIdle
    /\ store = {}

\* fetchAllData() starts the four fetch methods
CallFetchAllData ==
    /\ agg.state = "none"
    /\ \A s \in Sources : fr[s].pc = "idle"
    /\ fr' = [s \in Sources |-> RetryStart]
    /\ src' = [s \in Sources |-> Pending]
    /\ agg' = [state |-> "pending", result |-> NoResult]
    /\ UNCHANGED <<indexVars, call>>

\* one fetch method is called on its own
CallFetchMethod(s) ==
    /\ agg.state = "none"
    /\ \A t \in Sources : fr[t].pc = "idle"
    /\ fr' = [fr EXCEPT ![s] = RetryStart]
    /\ src' = [src EXCEPT ![s] = Pending]
    /\ UNCHANGED agg
    /\ UNCHANGED <<indexVars, call>>

\* whether source s may make its next HTTP attempt
CanAttempt(s) == fr[s].pc = "fetch"

\* an HTTP attempt of source s ends with outcome o; when that ends the
\* fetchWithRetry call, the fetch method and (if it was the last of the four)
\* fetchAllData run on
Attempt(s, o) ==
    /\ CanAttempt(s)
    /\ LET st == AttemptStep(fr[s], o)
           res == [src EXCEPT ![s] = IF st.pc = "done"
                                     THEN FetchMethod(s, st.result) ELSE @]
       IN /\ fr' = [fr EXCEPT ![s] = st]
          /\ src' = res
          /\ agg' = Join(agg, res, Today, 1)
    /\ UNCHANGED <<indexVars, call>>

\* the backoff timer of source s fires
Wake(s) ==
    /\ fr[s].pc = "sleep"
    /\ fr' = [fr EXCEPT ![s] = WakeStep(@)]
    /\ UNCHANGED <<src, agg>>
    /\ UNCHANGED <<indexVars, call>>

\* a single fetch method under every kind of attempt outcome
NextRetry ==
    \/ \E s \in Sources : CallFetchMethod(s)
    \/ \E s \in Sources : \E o \in RichOutcomes(s) : Attempt(s, o)
    \/ \E s \in Sources : Wake(s)

SpecRetry == InitFetch /\ [][NextRetry]_vars

\* fetchAllData: the four sources side by side
NextFetchAll ==
    \/ CallFetchAllData
    \/ \E s \in Sources : \E o \in BasicOutcomes(s) : Attempt(s, o)
    \/ \E s \in Sources : Wake(s)

SpecFetchAll == InitFetch /\ [][NextFetchAll]_vars

-----------------------------------------------------------------------------
(* The indexing operation as a state machine                               *)

\* what the sources answer while the indexing operation runs
IndexBodies(s) ==
    CASE s = "burned" ->
           { WalletBody(<<Bal(MARS_DENOM, 5500000)>>), MalformedBody }
      [] s = "treasury" ->
           { WalletBody(<<Bal(MARS_DENOM, 15000000)>>), WalletBody(<<Bal("untrn", 7)>>) }
      [] s = "price" ->
           { PriceBody(15000), PriceBody(20000), PriceBody(30000), PriceBody(5),
             PriceBody(MIN_PRICE_USD) }
      [] s = "liquidity" ->
           { PoolsBody(<<Pool(<<Asset(MARS_DENOM, "MARS")>>, 100 * UNIT)>>),
             PoolsBody(<<Pool(<<Asset(MARS_DENOM, "MARS")>>, 250 * UNIT)>>),
             PoolsBody(<<>>) }

IndexOutcomes(s) ==
    {Ok(b) : b \in IndexBodies(s)}
        \cup (IF s \in {"burned", "price"} THEN {OwnFailure(s)} ELSE {})

\* a whole fetchWithRetry call on the outcomes outs[1], outs[2], ...
RECURSIVE RunRetry(_, _)
RunRetry(st, outs) ==
    IF st.pc = "done" \/ outs = <<>> THEN st
    ELSE IF st.pc = "sleep" THEN RunRetry(WakeStep(st), outs)
    ELSE RunRetry(AttemptStep(st, Head(outs)), Tail(outs))

\* the results the fetch method of source s can settle with
SourceResults(s) ==
    { FetchMethod(s, RunRetry(RetryStart, outs).result) :
        outs \in [1..MAX_RETRIES -> IndexOutcomes(s)] }

\* invocations are numbered in order of arrival, and one runs at a time
MayInvoke(r) ==
    /\ run[r].pc = "idle"
    /\ \A q \in Runs : q < r => run[q].pc \in {"done", "gone"}

\* (mutant) the cron handler lost its skip
ProceedsWithoutSkip(entry, force, exists) ==
    CASE entry = "cron"   -> TRUE
      [] entry = "hourly" -> TRUE
      [] entry = "manual" -> ~exists \/ force

\* (mutant) the manual script ignores --force
ProceedsIgnoringForce(entry, force, exists) ==
    CASE entry = "cron"   -> ~exists
      [] entry = "hourly" -> TRUE
      [] entry = "manual" -> ~exists

\* whether the entry point goes on to fetch, given the existence lookup
Proceeds(entry, force, exists) ==
    CASE entry = "cron"   -> ~exists
      [] entry = "hourly" -> TRUE
      [] entry = "manual" -> ~exists \/ force

\* the start of an invocation, up to the first await: the preflight and
\* method checks of the handlers
Invoke(r, entry, method, force) ==
    /\ MayInvoke(r)
    /\ clock' = clock + 1
    /\ LET st == [RunIdle EXCEPT !.entry = entry, !.force = force, !.today = Today,
                                 !.existedAtStart = HasBlob(store, getFileName(Today))]
           next ==
             IF entry = "hourly" /\ method = "OPTIONS"
             THEN [st EXCEPT !.pc = "done", !.out = EmptyResponse]
             ELSE IF entry # "manual" /\ method \notin {"POST", "GET"}
             THEN Respond(st, Response(405, FALSE, Today, "Method not allowed",
                                       FALSE, <<>>, <<>>, FALSE))
             ELSE [st EXCEPT !.pc = "exists"]
       IN run' = [q \in Runs |-> IF q = r THEN next ELSE Forget(run[q])]
    /\ UNCHANGED <<store, puts, fetchVars, call>>

\* await storageService.dataExistsForDate(today), and the decision to skip
CheckExists(r, headOk) ==
    /\ run[r].pc = "exists"
    /\ LET st == run[r]
           exists == dataExistsForDate(store, st.today, headOk)
       IN run' = [run EXCEPT ![r] =
            IF Proceeds(st.entry, st.force, exists)
            THEN [st EXCEPT !.pc = "fetch", !.dataExists = exists,
                            !.lookupFailed = ~headOk]
            ELSE Respond([st EXCEPT !.dataExists = exists, !.lookupFailed = ~headOk],
                         Response(200, TRUE, st.today, "Data already indexed for today",
                                  FALSE, <<>>, <<>>, TRUE))]
    /\ UNCHANGED <<store, clock, puts, fetchVars, call>>

UnexpectedError(st) ==
    Respond(st, Response(500, FALSE, st.today, "Unexpected error", FALSE, <<>>,
                         <<Msg("TypeError")>>, TRUE))

\* await dataFetcher.fetchAllData(), res being what the four sources settle with
FetchAll(r, res) ==
    /\ run[r].pc = "fetch"
    /\ LET st == [run[r] EXCEPT !.nFetch = @ + 1]
           joined == Join([state |-> "pending", result |-> NoResult], res, st.today, clock)
       IN run' = [run EXCEPT ![r] =
            IF joined.state = "rejected" THEN UnexpectedError(st)
            ELSE IF joined.result.success
            THEN [st EXCEPT !.pc = "context", !.fetchResult = joined.result]
            ELSE [st EXCEPT !.pc = "fallback", !.fetchResult = joined.result,
                            !.candidate = EmptyCandidate, !.kind = "fallback_fetch"]]
    /\ UNCHANGED <<store, clock, puts, fetchVars, call>>

\* await getValidationContext(today), then validateData and the branch on it
Validate(r, readOk) ==
    /\ run[r].pc = "context"
    /\ LET st == run[r]
           currentData == st.fetchResult.data
           previous == getValidationContext(store, st.today, readOk)
           validationResult == validateData(currentData, previous)
           seen == [st EXCEPT !.validation = validationResult,
                              !.previousData = previous.data,
                              !.hasPrevious = previous.success]
       IN run' = [run EXCEPT ![r] =
            IF validationResult.isValid
            THEN [seen EXCEPT !.pc = "store", !.toStore = currentData, !.kind = "fresh"]
            ELSE [seen EXCEPT !.pc = "fallback", !.candidate = currentData,
                              !.kind = "fallback_validation"]]
    /\ UNCHANGED <<store, clock, puts, fetchVars, call>>

\* await createFallbackData(today, candidate)
CreateFallback(r, readOk) ==
    /\ run[r].pc = "fallback"
    /\ LET st == run[r]
           previous == getValidationContext(store, st.today, readOk)
           fallbackResult == createFallbackData(st.today, st.candidate, previous)
       IN run' = [run EXCEPT ![r] =
            IF fallbackResult.success
            THEN [st EXCEPT !.pc = "store", !.toStore = fallbackResult.data,
                            !.previousData = previous.data, !.hasPrevious = TRUE]
            ELSE IF st.kind = "fallback_fetch"
            THEN Respond(st, Response(500, FALSE, st.today,
                                      "Data fetch failed and no fallback available",
                                      FALSE, <<>>, <<st.fetchResult.error>>, TRUE))
            ELSE Respond(st, Response(500, FALSE, st.today,
                                      "Data validation failed and no fallback available",
                                      FALSE, <<>>, st.validation.errors, TRUE))]
    /\ UNCHANGED <<store, clock, puts, fetchVars, call>>

\* (mutant) a stored fallback record is answered as a failure
StoredResponseFallbackFails(st, result) ==
    IF st.kind = "fresh" /\ result.success
    THEN Response(200, TRUE, st.today, "Data indexed successfully", FALSE,
                  st.validation.warnings, <<>>, TRUE)
    ELSE Response(500, FALSE, st.today, "Failed to store data", FALSE, <<>>,
                  <<result.error>>, TRUE)

\* the response after storeData, by the path the record came on
StoredResponse(st, result) ==
    CASE st.kind = "fresh" ->
           IF result.success
           THEN Response(200, TRUE, st.today,
                         IF st.entry = "hourly" /\ st.dataExists
                         THEN "Data updated successfully" ELSE "Data indexed successfully",
                         FALSE, st.validation.warnings, <<>>, TRUE)
           ELSE Response(500, FALSE, st.today, "Failed to store data", FALSE, <<>>,
                         <<result.error>>, TRUE)
      [] st.kind = "fallback_fetch" ->
           IF result.success
           THEN Response(200, TRUE, st.today, "Data indexed using fallback values", TRUE,
                         <<Msg("Used previous day data due to fetch failures")>>, <<>>, TRUE)
           ELSE Response(500, FALSE, st.today, "Failed to store fallback data", FALSE,
                         <<>>, <<result.error>>, TRUE)
      [] st.kind = "fallback_validation" ->
           IF result.success
           THEN Response(200, TRUE, st.today,
                         "Data indexed using fallback due to validation failures", TRUE,
                         st.validation.warnings, st.validation.errors, TRUE)
           ELSE Response(500, FALSE, st.today,
                         "Failed to store fallback data after validation failure", FALSE,
                         <<>>, st.validation.errors \o <<result.error>>, TRUE)

\* (mutant) a failed write is tried again
StoreRetrying(r, putOk) ==
    /\ run[r].pc = "store"
    /\ run[r].nPut < 2
    /\ LET st == run[r] IN
       /\ store' = storeData(store, st.toStore, clock, putOk)
       /\ puts' = IF putOk
                  THEN Append(puts, [by |-> r, pathname |-> getFileName(st.toStore.date),
                                     content |-> StoredContent(st.toStore, clock)])
                  ELSE puts
       /\ run' = [run EXCEPT ![r] =
            IF putOk \/ st.nPut = 1
            THEN Respond([st EXCEPT !.nPut = @ + 1, !.stored = putOk],
                         StoredResponse(st, storeDataResult(putOk)))
            ELSE [st EXCEPT !.nPut = @ + 1]]
    /\ UNCHANGED <<clock, fetchVars, call>>

\* await storageService.storeData(record), and the response
Store(r, putOk) ==
    /\ run[r].pc = "store"
    /\ LET st == run[r] IN
       /\ store' = storeData(store, st.toStore, clock, putOk)
       /\ puts' = IF putOk
                  THEN Append(puts, [by |-> r, pathname |-> getFileName(st.toStore.date),
                                     content |-> StoredContent(st.toStore, clock)])
                  ELSE puts
       /\ run' = [run EXCEPT ![r] =
            Respond([st EXCEPT !.nPut = @ + 1, !.stored = putOk],
                    StoredResponse(st, storeDataResult(putOk)))]
    /\ UNCHANGED <<clock, fetchVars, call>>

Init ==
    /\ FetchIdle
    /\ IndexIdle
    /\ CallIdle
    /\ store \in InitialStores

Next ==
    \/ \E r \in Runs, method \in Methods : \E entry \in {"cron", "hourly"} :
          Invoke(r, entry, method, FALSE)
    \/ \E r \in Runs, force \in BOOLEAN : Invoke(r, "manual", "", force)
    \/ \E r \in Runs, headOk \in BOOLEAN : CheckExists(r, headOk)
    \/ \E r \in Runs :
          \E b \in SourceResults("burned"), t \in SourceResults("treasury"),
             p \in SourceResults("price"), l \in SourceResults("liquidity") :
            FetchAll(r, [s \in Sources |->
                           CASE s = "burned" -> b [] s = "treasury" -> t
                             [] s = "price" -> p [] s = "liquidity" -> l])
    \/ \E r \in Runs, readOk \in BOOLEAN : Validate(r, readOk)
    \/ \E r \in Runs, readOk \in BOOLEAN : CreateFallback(r, readOk)
    \/ \E r \in Runs, putOk \in BOOLEAN : Store(r, putOk)

Spec == Init /\ [][Next]_vars

\* Two invocations side by side: an invocation arrives whenever it likes, and
\* the awaits of the two interleave.  The sources answer from a short menu.

\* the start of an invocation that does not wait for the others to return
Arrive(r, entry, force) ==
    /\ run[r].pc = "idle"
    /\ clock' = clock + 1
    /\ run' = [run EXCEPT ![r] =
                  [RunIdle EXCEPT !.pc = "exists", !.entry = entry, !.force = force,
                                  !.today = Today,
                                  !.existedAtStart = HasBlob(store, getFileName(Today))]]
    /\ UNCHANGED <<store, puts, fetchVars, call>>

\* what the four sources settle with while two invocations run: all four
\* answer, with one of two prices, or the price source fails
ConcurrentResults ==
    { [s \in Sources |->
         CASE s = "burned"    -> SrcOk(5)
           [] s = "treasury"  -> SrcOk(15)
           [] s = "price"     -> p
           [] s = "liquidity" -> SrcOk(100 * UNIT)] :
      p \in {SrcOk(15000), SrcOk(16000), SrcFailed("HTTP 500: Internal Server Error")} }

NextConcurrent ==
    \/ \E r \in Runs, entry \in Entries, force \in BOOLEAN :
          (entry = "manual" \/ ~force) /\ Arrive(r, entry, force)
    \/ \E r \in Runs, headOk \in BOOLEAN : CheckExists(r, headOk)
    \/ \E r \in Runs, res \in ConcurrentResults : FetchAll(r, res)
    \/ \E r \in Runs, readOk \in BOOLEAN : Validate(r, readOk)
    \/ \E r \in Runs, readOk \in BOOLEAN : CreateFallback(r, readOk)
    \/ \E r \in Runs, putOk \in BOOLEAN : Store(r, putOk)

SpecConcurrent == Init /\ [][NextConcurrent]_vars

\* The invocations one at a time, the sources answering from the short menu,
\* and each await of an invocation eventually settling (the store, the
\* sources and the timers answer or time out): the step after it is taken.
Await(r) ==
    \/ \E headOk \in BOOLEAN : CheckExists(r, headOk)
    \/ \E res \in ConcurrentResults, low \in BOOLEAN :
          \* low: the price source answers with a price below MIN_PRICE_USD
          FetchAll(r, IF low THEN [res EXCEPT !["price"] = SrcOk(5)] ELSE res)
    \/ \E readOk \in BOOLEAN : Validate(r, readOk)
    \/ \E readOk \in BOOLEAN : CreateFallback(r, readOk)
    \/ \E putOk \in BOOLEAN : Store(r, putOk)

NextFair ==
    \/ \E r \in Runs, method \in Methods : \E entry \in {"cron", "hourly"} :
          Invoke(r, entry, method, FALSE)
    \/ \E r \in Runs, force \in BOOLEAN : Invoke(r, "manual", "", force)
    \/ \E r \in Runs : Await(r)

SpecFair == Init /\ [][NextFair]_vars /\ \A r \in Runs : WF_vars(Await(r))

-----------------------------------------------------------------------------
(* The validation service called directly, on records of every shape       *)

\* prices around the absolute bounds and around the change thresholds of a
\* previous price of 0.15 USD
InputPrices ==
    {NaN, -1, 0, 9, 10, 7499, 7500, 11249, 11250, 15000, 18750, 18751,
     22500, 22501, 1000 * UNIT, 1000 * UNIT + 1}

InputBurned == {-1, 0, 5, 10}
InputTreasury == {-1, 7, 15}
InputLiquidity == {-1, 0, 100 * UNIT, 200 * UNIT, 200 * UNIT + 1, 250 * UNIT}

\* a USD field that agrees with quantity times price, or one that does not
UsdField(quantity, price, consistent) ==
    IF consistent THEN RoundCents(Mul(quantity, price)) ELSE 123 * UNIT

CurrentRecords ==
    { Rec(Today, b, t, p, l, UsdField(b, p, c), UsdField(t, p, c), 1) :
        b \in InputBurned, t \in InputTreasury, p \in InputPrices,
        l \in InputLiquidity, c \in BOOLEAN }

\* the previousData argument: absent, or the previous day's record
PreviousRecords ==
    { NoPrevious,
      [success |-> TRUE, data |-> SeedPrevious],
      [success |-> TRUE, data |-> [SeedPrevious EXCEPT !.price_usd = 0,
                                                       !.burned_supply_usd = 0,
                                                       !.treasury_supply_usd = 0]],
      [success |-> TRUE, data |-> [SeedPrevious EXCEPT !.on_chain_liquidity_usd = 0]] }

\* the failedData argument: {} , partial and complete records, with values
\* that are absent, zero or positive, and USD fields absent or stale
FailedRecords ==
    { Rec(Today, b, t, p, l, u, u, NaN) :
        b \in {NaN, 0, 7}, t \in {NaN, 0, 9}, p \in {NaN, 0, 20000},
        l \in {NaN, 0, 50 * UNIT}, u \in {NaN, 123 * UNIT} }
    \cup {EmptyCandidate}

\* validationService.validateData(current, previous)
CallValidateData(current, previous) ==
    /\ call.op = "none"
    /\ call' = [NoCall EXCEPT !.op = "validateData",
                              !.current = current,
                              !.previous = previous,
                              !.validation = validateData(current, previous)]
    /\ UNCHANGED <<fetchVars, indexVars>>

\* validationService.createFallbackData(date, failedData)
CallCreateFallbackData(date, failedData, readOk) ==
    /\ call.op = "none"
    /\ LET previous == getValidationContext(store, date, readOk)
       IN call' = [NoCall EXCEPT !.op = "createFallbackData",
                                 !.date = date,
                                 !.current = failedData,
                                 !.previous = previous,
                                 !.fallback = createFallbackData(date, failedData, previous)]
    /\ UNCHANGED <<fetchVars, indexVars>>

InitValidation ==
    /\ FetchIdle
    /\ IndexIdle
    /\ CallIdle
    /\ store \in InitialStores

NextValidation ==
    \/ \E current \in CurrentRecords, previous \in PreviousRecords :
          CallValidateData(current, previous)
    \/ \E date \in {Today, PreviousDate(Today)}, failedData \in FailedRecords,
          readOk \in BOOLEAN :
          CallCreateFallbackData(date, failedData, readOk)

SpecValidation == InitValidation /\ [][NextValidation]_vars

-----------------------------------------------------------------------------
------------------------------------------------------------------------------
(* StorageService called directly: writes and reads of single records       *)

\* the calls of storeData in one behaviour
MaxWrites == 3

\* the records handed to storeData: two dates, two prices, updated_at absent
\* or already present
StorageRecords ==
    { Rec(d, 5, 15, p, 100 * UNIT, RoundCents(5 * p), RoundCents(15 * p), u) :
        d \in {PreviousDate(Today), Today}, p \in {15000, 16000}, u \in {NaN, 1} }

\* one call of storageService.storeData(data)
CallStoreData(data, putOk) ==
    /\ clock < MaxWrites
    /\ store' = storeData(store, data, clock, putOk)
    /\ puts' = IF putOk
               THEN Append(puts, [by |-> 0, pathname |-> getFileName(data.date),
                                  content |-> StoredContent(data, clock)])
               ELSE puts
    /\ clock' = clock + 1
    /\ call' = [NoCall EXCEPT !.op = "storeData", !.date = data.date,
                              !.current = data,
                              !.fallback = [NoFallback EXCEPT
                                              !.success = storeDataResult(putOk).success,
                                              !.error = storeDataResult(putOk).error]]
    /\ UNCHANGED <<fetchVars, run>>

\* one call of storageService.getData(date)
CallGetData(date, readOk) ==
    /\ call' = [NoCall EXCEPT !.op = "getData", !.date = date,
                              !.previous = getData(store, date, readOk)]
    /\ UNCHANGED <<fetchVars, indexVars>>

InitStorage ==
    /\ FetchIdle
    /\ IndexIdle
    /\ CallIdle
    /\ store \in InitialStores

NextStorage ==
    \/ \E data \in StorageRecords, putOk \in BOOLEAN : CallStoreData(data, putOk)
    \/ \E date \in {PreviousDate(Today), Today}, readOk \in BOOLEAN :
          CallGetData(date, readOk)

SpecStorage == InitStorage /\ [][NextStorage]_vars

(* The read endpoint GET /api/tokenomics over a store of daily records      *)

MaxRecords == 32

\* the record stored for the day d
StoredRecord(d) ==
    Rec(d, 5, 15, 15000 + d, 100 * UNIT,
        RoundCents(5 * (15000 + d)), RoundCents(15 * (15000 + d)), 0)

\* a store holding the records of the days 1..k
StoreOfDays(k) == {SeedBlob(StoredRecord(d)) : d \in 1..k}

ReadStores == {StoreOfDays(k) : k \in 0..MaxRecords}

\* the days parameter: absent (""), the four accepted values, another one
DaysParams == {"", "30", "90", "180", "all", "45"}

ValidDays == {"30", "90", "180", "all"}

\* parseInt(daysParam, 10) of an accepted value
ParseInt(daysParam) ==
    CASE daysParam = "30" -> 30
      [] daysParam = "90" -> 90
      [] daysParam = "180" -> 180

ReadMethods == {"GET", "POST", "OPTIONS"}

\* the days whose blob may fail to be read during a call: none or one
Unreadables == {{}} \cup {{d} : d \in 1..MaxRecords}

Reply(status, error, message) ==
    [NoReply EXCEPT !.status = status, !.body = TRUE, !.error = error,
                    !.message = message]

\* the four series of the response, one point per record
Series(data) ==
    [burned_supply |->
         [i \in 1..Len(data) |->
             [date |-> data[i].date, amount |-> data[i].burned_supply,
              value_usd |-> RoundCents(data[i].burned_supply_usd)]],
     treasury_supply |->
         [i \in 1..Len(data) |->
             [date |-> data[i].date, amount |-> data[i].treasury_supply,
              value_usd |-> RoundCents(data[i].treasury_supply_usd)]],
     price_usd |->
         [i \in 1..Len(data) |->
             [date |-> data[i].date, value_usd |-> data[i].price_usd]],
     on_chain_liquidity_usd |->
         [i \in 1..Len(data) |->
             [date |-> data[i].date,
              value_usd |-> RoundCents(data[i].on_chain_liquidity_usd)]]]

\* the handler's answer to a GET with an accepted days value, given the
\* result of the storage call
ReadReply(daysParam, dataResult) ==
    IF ~dataResult.success
    THEN Reply(500, "Data fetch failed", dataResult.error)
    ELSE IF Len(dataResult.data) = 0
    THEN Reply(404, "No data found", Msg("No tokenomics data available"))
    ELSE [status |-> 200, body |-> TRUE, error |-> "", message |-> NoError,
          series |-> Series(dataResult.data),
          meta |-> [last_updated |-> dataResult.data[1].date,
                    total_records |-> Len(dataResult.data),
                    days_requested |-> IF daysParam = "all"
                                       THEN Len(dataResult.data)
                                       ELSE ParseInt(daysParam)]]

\* one request to the endpoint
CallReadEndpoint(method, days, pageSize, listOk, unreadable) ==
    /\ call.op = "none"
    /\ LET daysParam == IF days = "" THEN "30" ELSE days
           dataResult == IF daysParam = "all"
                         THEN getAllData(store, pageSize, listOk, unreadable)
                         ELSE getDataRange(store, ParseInt(daysParam), pageSize,
                                           listOk, unreadable)
           asked == [NoCall EXCEPT !.op = "tokenomics", !.method = method,
                                   !.days = days, !.pageSize = pageSize,
                                   !.listOk = listOk, !.unreadable = unreadable]
       IN call' =
            IF method = "OPTIONS"
            THEN [asked EXCEPT !.reply = [NoReply EXCEPT !.status = 200]]
            ELSE IF method # "GET"
            THEN [asked EXCEPT !.reply =
                      Reply(405, "Method not allowed",
                            Msg("Only GET requests are supported"))]
            ELSE IF daysParam \notin ValidDays
            THEN [asked EXCEPT !.reply =
                      Reply(400, "Invalid days parameter",
                            Msg("Days parameter must be one of: 30, 90, 180, all"))]
            ELSE [asked EXCEPT !.range = dataResult,
                               !.reply = ReadReply(daysParam, dataResult)]
    /\ UNCHANGED <<fetchVars, indexVars>>

\* the sizes of the pages the store delivers its listing in (scaled to the
\* stores of the model): a listing in
\* several pages, and one that fits a single page
PageSizes == {16, 1000}

\* the numbers of days getDataRange is called with directly
RangeDays == {0, 1, 2, 30}

\* one direct call of storageService.getDataRange
CallGetDataRange(days, pageSize, listOk, unreadable) ==
    /\ call.op = "none"
    /\ call' = [NoCall EXCEPT !.op = "getDataRange", !.date = days,
                              !.pageSize = pageSize,
                              !.listOk = listOk, !.unreadable = unreadable,
                              !.range = getDataRange(store, days, pageSize, listOk,
                                                     unreadable)]
    /\ UNCHANGED <<fetchVars, indexVars>>

InitRead ==
    /\ FetchIdle
    /\ IndexIdle
    /\ CallIdle
    /\ store \in ReadStores

NextRead ==
    \/ \E method \in ReadMethods, days \in DaysParams, pageSize \in PageSizes,
          listOk \in BOOLEAN, unreadable \in Unreadables :
          CallReadEndpoint(method, days, pageSize, listOk, unreadable)
    \/ \E days \in RangeDays, pageSize \in PageSizes, listOk \in BOOLEAN,
          unreadable \in Unreadables :
          CallGetDataRange(days, pageSize, listOk, unreadable)

SpecRead == InitRead /\ [][NextRead]_vars

-----------------------------------------------------------------------------
(* Properties of fetchWithRetry (checked under SpecRetry)                  *)

Last(q) == q[Len(q)]

AllFailed(log) == \A i \in 1..Len(log) : log[i].kind # "ok"

\* C1: a fetchWithRetry call makes at most 3 HTTP attempts; an attempt that
\* succeeds is the last one the call makes, and the call then returns
\* success with the payload parsed in that very attempt (whether it is the
\* 1st, 2nd or 3rd); a call returns success only in this way.
C1_AtMostThreeAttemptsStopAtSuccess ==
    \A s \in Sources :
        /\ fr[s].calls <= MAX_RETRIES
        /\ Len(fr[s].log) = fr[s].calls
        /\ \A i \in 1..Len(fr[s].log) :
              fr[s].log[i].kind = "ok" =>
                  /\ i = Len(fr[s].log)
                  /\ fr[s].pc = "done"
                  /\ fr[s].result = Success(fr[s].log[i].body)
        /\ (fr[s].pc = "done" /\ fr[s].result.success) =>
              /\ fr[s].log # <<>>
              /\ Last(fr[s].log).kind = "ok"

\* a call that failed twice and succeeded on its third attempt
C1_Witness ==
    \E s \in Sources :
        /\ fr[s].pc = "done"
        /\ fr[s].result.success
        /\ fr[s].calls = 3
        /\ fr[s].log[1].kind # "ok"
        /\ fr[s].log[2].kind # "ok"
        /\ fr[s].result.data.shape = "json"

\* C2: when every attempt of a call fails, the call ends only after its
\* third attempt, with failure, and the error is the message of the third
\* failed attempt.
C2_FailureAfterThreeWithLastError ==
    \A s \in Sources :
        /\ (fr[s].pc = "done" /\ AllFailed(fr[s].log)) =>
              /\ fr[s].calls = MAX_RETRIES
              /\ ~fr[s].result.success
              /\ fr[s].result.error = AttemptError(fr[s].log[MAX_RETRIES])
        /\ (fr[s].calls = MAX_RETRIES /\ AllFailed(fr[s].log)) => fr[s].pc = "done"
        /\ (fr[s].pc = "done" /\ ~fr[s].result.success) => AllFailed(fr[s].log)

\* three failed attempts whose last message differs from both earlier ones
C2_Witness ==
    \E s \in Sources :
        /\ fr[s].pc = "done"
        /\ ~fr[s].result.success
        /\ fr[s].calls = 3
        /\ fr[s].log[1].kind = "abort"
        /\ fr[s].log[2].kind = "error"
        /\ fr[s].log[3].kind = "status"
        /\ fr[s].result.error = "HTTP 500: Internal Server Error"

\* the price source answered 2xx with a body that lacks the price field
PriceFieldAbsent(o) ==
    o.kind = "ok" /\ (o.body.shape = "null" \/ ~IsNum(o.body.usd))

\* C28: when the price source answers 2xx without the price field,
\* fetchMarsPrice fails with 'Price data not available' and no request
\* follows that answer: given to the first request, it ends the call after a
\* single HTTP request, with no wait and no retry.
C28_MissingPriceFailsWithoutRetry ==
    \A i \in 1..Len(fr["price"].log) :
        PriceFieldAbsent(fr["price"].log[i]) =>
            /\ fr["price"].pc = "done"
            /\ src["price"] = SrcFailed("Price data not available")
            /\ fr["price"].calls = i
            /\ Len(fr["price"].delays) = i - 1

\* the first answer of the price source is a 2xx JSON body without the price
C28_Witness ==
    /\ fr["price"].pc = "done"
    /\ fr["price"].calls = 1
    /\ fr["price"].log[1] = Ok(PriceBody(NaN))
    /\ fr["price"].delays = <<>>
    /\ src["price"].status = "failed"
    /\ src["price"].error = "Price data not available"

FailedAttempts(log) == Cardinality({i \in 1..Len(log) : log[i].kind # "ok"})

\* C29: within one fetchWithRetry call the wait after the first failed
\* attempt is 1000 ms and the wait after the second is 2000 ms; no wait
\* follows the third failed attempt and none precedes the first attempt.
C29_BackoffDelays ==
    \A s \in Sources :
        LET st == fr[s] IN
        /\ Len(st.delays) <= 2
        /\ Len(st.delays) >= 1 => st.delays[1] = 1000
        /\ Len(st.delays) >= 2 => st.delays[2] = 2000
        /\ (st.calls = 0) => st.delays = <<>>
        /\ Len(st.delays) = (IF FailedAttempts(st.log) < 3
                             THEN FailedAttempts(st.log) ELSE 2)
        /\ (st.pc = "sleep") => Len(st.delays) = st.calls
        /\ (st.pc = "fetch") => Len(st.delays) = st.calls

\* a call whose three attempts failed has waited 1000 ms, then 2000 ms
C29_Witness ==
    \E s \in Sources :
        /\ fr[s].pc = "done"
        /\ fr[s].calls = 3
        /\ AllFailed(fr[s].log)
        /\ fr[s].delays = <<1000, 2000>>

-----------------------------------------------------------------------------
(* Properties of fetchAllData (checked under SpecFetchAll)                 *)

FailedSources == {s \in Sources : src[s].status = "failed"}

HasEntry(es, s) == \E i \in 1..Len(es) : es[i].label = Label(s)

\* C3: fetchAllData fails whenever at least one source failed, and its
\* error holds exactly one labelled entry for every failed source, carrying
\* that source's own error, and no entry for a source that succeeded.
C3_ErrorNamesExactlyTheFailedSources ==
    agg.state = "resolved" =>
        LET es == agg.result.error.entries IN
        /\ agg.result.success <=> FailedSources = {}
        /\ Len(es) = Cardinality(FailedSources)
        /\ \A s \in Sources :
              /\ HasEntry(es, s) <=> s \in FailedSources
              /\ s \in FailedSources =>
                    \E i \in 1..Len(es) : es[i] = Entry(s, src[s].error)
              /\ (s \in FailedSources /\ ~fr[s].result.success) =>
                    \E i \in 1..Len(es) :
                        es[i] = Entry(s, AttemptError(Last(fr[s].log)))

\* burned supply and price failed, treasury and liquidity succeeded
C3_Witness ==
    /\ agg.state = "resolved"
    /\ FailedSources = {"burned", "price"}
    /\ Len(agg.result.error.entries) = 2
    /\ agg.result.error.entries[1].label = "Burned supply"
    /\ agg.result.error.entries[2].label = "Price"

\* C4: fetchAllData has a result only once all four sources have settled;
\* whatever the other sources did, a source that is not done can take its
\* next step (attempt or backoff), and a source whose call failed used all
\* 3 of its attempts.
C4_ResultOnlyAfterAllSettled ==
    /\ agg.state = "resolved" =>
          \A s \in Sources : fr[s].pc = "done" /\ Settled(src[s])
    /\ \A s \in Sources :
          /\ fr[s].pc = "fetch" => ENABLED (\E o \in BasicOutcomes(s) : Attempt(s, o))
          /\ fr[s].pc = "sleep" => ENABLED Wake(s)
          /\ (fr[s].pc = "done" /\ ~fr[s].result.success) => fr[s].calls = MAX_RETRIES

\* the result is there; burned supply failed all 3 attempts while treasury
\* supply went on to succeed on its third
C4_Witness ==
    /\ agg.state = "resolved"
    /\ src["burned"].status = "failed"
    /\ fr["burned"].calls = 3
    /\ src["treasury"].status = "ok"
    /\ fr["treasury"].calls = 3
    /\ fr["price"].calls = 1

-----------------------------------------------------------------------------
(* Properties of the indexing operation (checked under Spec)               *)

Done(r) == run[r].pc = "done"

TodayName == getFileName(Today)
PreviousName == getFileName(PreviousDate(Today))

\* the put of invocation r, if the store accepted one
PutsBy(r) == SelectSeq(puts, LAMBDA w : w.by = r)

SameFourFields(a, b) ==
    /\ a.burned_supply = b.burned_supply
    /\ a.treasury_supply = b.treasury_supply
    /\ a.price_usd = b.price_usd
    /\ a.on_chain_liquidity_usd = b.on_chain_liquidity_usd

FetchFailed(r) == run[r].kind = "fallback_fetch"

StoredFallbackOfPrevious(r) ==
    /\ run[r].out.success
    /\ run[r].out.usedFallback
    /\ HasBlob(store, TodayName)
    /\ ContentOf(store, TodayName).date = Today
    /\ SameFourFields(ContentOf(store, TodayName), ContentOf(store, PreviousName))

\* C5 as stated: whenever fetchAllData failed and the previous day's record
\* is in the store, the run has stored a record for today that repeats the
\* previous day's four values and has ended with success and usedFallback.
C5_AsStated ==
    \A r \in Runs :
        (Done(r) /\ FetchFailed(r) /\ HasBlob(store, PreviousName)) =>
            StoredFallbackOfPrevious(r)

\* C5 (amended): when fetchAllData failed and the previous day's record is
\* in the store, the fallback is built from the empty candidate; if the
\* read of the previous day's record and the write both succeed, the run
\* has stored a record for today that repeats the previous day's four
\* values and has ended with success and usedFallback (200 from a handler);
\* otherwise it has ended without success and has written nothing.
C5_FetchFailureFallsBackToPreviousDay ==
    \A r \in Runs :
        (Done(r) /\ FetchFailed(r) /\ HasBlob(store, PreviousName)) =>
            /\ run[r].candidate = EmptyCandidate
            /\ (run[r].hasPrevious /\ run[r].stored) =>
                  /\ StoredFallbackOfPrevious(r)
                  /\ Len(PutsBy(r)) = 1
                  /\ run[r].entry # "manual" => run[r].out.status = 200
            /\ ~(run[r].hasPrevious /\ run[r].stored) =>
                  /\ ~run[r].out.success
                  /\ PutsBy(r) = <<>>

\* a handler run whose fetch failed and that stored the fallback
C5_Witness ==
    \E r \in Runs :
        /\ Done(r)
        /\ FetchFailed(r)
        /\ run[r].entry = "cron"
        /\ run[r].stored
        /\ run[r].out.status = 200
        /\ run[r].out.usedFallback
        /\ StoredFallbackOfPrevious(r)

PriceErrors ==
    {Msg("Price too low"), Msg("Price too high"), Msg("Extreme price change")}

PriceInvalid(r) ==
    \E i \in 1..Len(run[r].validation.errors) : run[r].validation.errors[i] \in PriceErrors

\* C6: when the fetched record failed validation and the fallback was
\* stored, a price that validation found invalid is not in the stored
\* record: the stored price is the previous day's.
C6_InvalidFieldsComeFromPreviousDay ==
    \A r \in Runs :
        (Done(r) /\ run[r].kind = "fallback_validation" /\ run[r].stored
           /\ PriceInvalid(r)) =>
            ContentOf(store, TodayName).price_usd
                = ContentOf(store, PreviousName).price_usd

Handler(r) == run[r].entry \in {"cron", "hourly"}

FailureMessages ==
    { "Data fetch failed and no fallback available",
      "Data validation failed and no fallback available",
      "Failed to store data", "Failed to store fallback data",
      "Failed to store fallback data after validation failure",
      "Unexpected error" }

\* C7: a handler invocation that wrote a record (fresh or fallback) answers
\* 200 with success=true; it answers 500 only with success=false, only
\* when it wrote nothing, and only because the fallback could not be built,
\* the write failed or an unexpected exception was caught; success=false
\* comes with 500 or with 405 only.
C7_StatusFollowsStoredState ==
    \A r \in Runs :
        (Done(r) /\ Handler(r)) =>
            /\ run[r].stored => (run[r].out.status = 200 /\ run[r].out.success)
            /\ Len(PutsBy(r)) = (IF run[r].stored THEN 1 ELSE 0)
            /\ run[r].out.status = 500 =>
                  /\ ~run[r].out.success
                  /\ ~run[r].stored
                  /\ run[r].out.message \in FailureMessages
            /\ (run[r].out.body /\ ~run[r].out.success) =>
                  run[r].out.status \in {500, 405}
            /\ (run[r].out.body /\ run[r].out.success) => run[r].out.status = 200

\* a handler run that stored a fallback after a validation failure: 200
C7_Witness ==
    \E r \in Runs :
        /\ Done(r)
        /\ Handler(r)
        /\ run[r].kind = "fallback_validation"
        /\ run[r].stored
        /\ run[r].out.status = 200

Validated(r) == run[r].kind \in {"fresh", "fallback_validation"}

ZeroErrors(r) ==
    /\ run[r].fetchResult.success
    /\ Validated(r)
    /\ run[r].validation.errors = <<>>

StoredFresh(r) ==
    /\ run[r].stored
    /\ ContentOf(store, TodayName) = run[r].fetchResult.data
    /\ run[r].out.success
    /\ ~run[r].out.usedFallback
    /\ run[r].out.warnings = run[r].validation.warnings

\* C8 as stated: whenever the fetch succeeded and validation reported zero
\* errors, the run has stored exactly the fetched record and has ended
\* STORED with the warnings in its outcome.
C8_AsStated ==
    \A r \in Runs : (Done(r) /\ ZeroErrors(r)) => StoredFresh(r)

\* C8 (amended): when the fetch succeeded and validation reported zero
\* errors, the run, however many warnings there are, never builds a
\* fallback and attempts one write, of exactly the fetched record; if the
\* write succeeds the stored record is the fetched one and the run ends
\* STORED with the warnings in its outcome, and if the write fails it ends
\* FAILED with nothing written.
C8_ValidRecordStoredAsFetched ==
    \A r \in Runs :
        /\ ZeroErrors(r) =>
              /\ run[r].kind = "fresh"
              /\ run[r].pc \in {"store", "done"}
              /\ run[r].toStore = run[r].fetchResult.data
        /\ (Done(r) /\ ZeroErrors(r)) =>
              /\ run[r].nPut = 1
              /\ run[r].stored => (StoredFresh(r) /\ Len(PutsBy(r)) = 1)
              /\ ~run[r].stored => (~run[r].out.success /\ PutsBy(r) = <<>>)

\* a valid record with two warnings, stored as fetched
C8_Witness ==
    \E r \in Runs :
        /\ Done(r)
        /\ ZeroErrors(r)
        /\ Len(run[r].validation.warnings) = 2
        /\ StoredFresh(r)
        /\ run[r].out.warnings[1] = Msg("Large price change")

PassedMethodCheck(r) == run[r].out.status # 405 /\ run[r].out # EmptyResponse

NoOp(r) == run[r].nFetch = 0 /\ run[r].nPut = 0 /\ PutsBy(r) = <<>>

PastLookup(r) == run[r].pc \in {"fetch", "context", "fallback", "store", "done"}

WentOn(r) == run[r].pc \in {"fetch", "context", "fallback", "store"} \/ run[r].nFetch > 0

C11_OneRecordPerDate ==
    /\ \A b1, b2 \in store : b1.pathname = b2.pathname => b1 = b2
    /\ \A b \in store : b.pathname = getFileName(b.content.date)
    /\ \A b1, b2 \in store : b1.content.date = b2.content.date => b1 = b2
    /\ \A i \in 1..Len(puts) :
          /\ puts[i].pathname = getFileName(puts[i].content.date)
          /\ HasBlob(store, puts[i].pathname)
    /\ puts # <<>> => ContentOf(store, Last(puts).pathname) = Last(puts).content

\* the hourly handler wrote the day's record a second time: still one blob
C11_Witness ==
    /\ Len(puts) = 2
    /\ puts[2].by = 2
    /\ run[2].entry = "hourly"
    /\ puts[1].pathname = puts[2].pathname
    /\ puts[1].content # puts[2].content
    /\ Cardinality({b \in store : b.content.date = Today}) = 1

\* C12 as stated: after any number of writes for the day, the stored
\* updated_at is the one of the first write.
C12_AsStated ==
    puts # <<>> =>
        ContentOf(store, TodayName).updated_at = puts[1].content.updated_at

\* C12 (amended): the stored updated_at is the one of the latest write, and
\* every write carries the time of the invocation that made it; a refresh
\* write therefore replaces the stored updated_at by a later one.
C12_UpdatedAtFollowsLatestWrite ==
    /\ \A i \in 1..Len(puts) : puts[i].content.updated_at = puts[i].by
    /\ \A i, j \in 1..Len(puts) :
          i < j => puts[i].content.updated_at < puts[j].content.updated_at
    /\ puts # <<>> =>
          ContentOf(store, TodayName).updated_at = Last(puts).content.updated_at

\* the hourly handler found the day's record and overwrote it: the stored
\* updated_at is no longer the first write's
C12_Witness ==
    /\ Done(2)
    /\ run[2].entry = "hourly"
    /\ run[2].dataExists
    /\ run[2].stored
    /\ Len(puts) = 2
    /\ puts[1].content.updated_at = 1
    /\ ContentOf(store, TodayName).updated_at = 2

-----------------------------------------------------------------------------
(* Properties of the validation service (checked under SpecValidation)     *)

FallbackCalled == call.op = "createFallbackData"

FallbackBuilt == FallbackCalled /\ call.fallback.success

PreviousStored == HasBlob(store, getFileName(PreviousDate(call.date)))

\* C13: createFallbackData(date, candidate) called while the store has no
\* record for the day before date fails with 'No previous data available
\* for fallback' and returns no record, whatever the candidate.
C13_NoPreviousDayNoFallback ==
    (FallbackCalled /\ ~PreviousStored) =>
        /\ ~call.fallback.success
        /\ call.fallback.error = Msg("No previous data available for fallback")
        /\ call.fallback.data = NoRecord
        /\ ~call.fallback.usedFallback

\* a complete candidate, no record for the day before: the call failed
C13_Witness ==
    /\ FallbackCalled
    /\ ~PreviousStored
    /\ call.current.burned_supply = 7
    /\ call.current.treasury_supply = 9
    /\ call.current.price_usd = 20000
    /\ call.current.on_chain_liquidity_usd = 50 * UNIT
    /\ call.fallback.error = Msg("No previous data available for fallback")

FourFields ==
    {"burned_supply", "treasury_supply", "price_usd", "on_chain_liquidity_usd"}

\* the candidate has field f
HasField(rec, f) == IsNum(rec[f])

\* C14: each of the four fields of the record createFallbackData builds is
\* the candidate's value when the candidate has the field and the previous
\* day's value when it has not; the date is the target date and the result
\* is marked usedFallback.
C14_FieldByField ==
    FallbackBuilt =>
        /\ \A f \in FourFields :
              call.fallback.data[f] = IF HasField(call.current, f)
                                      THEN call.current[f]
                                      ELSE call.previous.data[f]
        /\ call.fallback.data.date = call.date
        /\ call.fallback.usedFallback

\* C15: in every record createFallbackData builds, burned_supply_usd and
\* treasury_supply_usd are the record's own quantity times its own price,
\* whatever USD values the candidate or the previous day's record hold.
C15_UsdRecomputed ==
    FallbackBuilt =>
        /\ call.fallback.data.burned_supply_usd
             = call.fallback.data.burned_supply * call.fallback.data.price_usd
        /\ call.fallback.data.treasury_supply_usd
             = call.fallback.data.treasury_supply * call.fallback.data.price_usd

\* a candidate with its own quantities and stale USD values, and the
\* previous day's price: neither the candidate's nor the previous day's USD
\* values are in the result
C15_Witness ==
    /\ FallbackBuilt
    /\ call.current.burned_supply = 7
    /\ call.current.treasury_supply = 9
    /\ ~HasField(call.current, "price_usd")
    /\ call.current.burned_supply_usd = 123 * UNIT
    /\ call.fallback.data.burned_supply_usd = 7 * call.previous.data.price_usd
    /\ call.fallback.data.burned_supply_usd # call.current.burned_supply_usd
    /\ call.fallback.data.burned_supply_usd # call.previous.data.burned_supply_usd
    /\ call.fallback.data.treasury_supply_usd # call.previous.data.treasury_supply_usd

ValidateCalled == call.op = "validateData"

HasError(text) ==
    \E i \in 1..Len(call.validation.errors) : call.validation.errors[i] = Msg(text)

HasWarning(text) ==
    \E i \in 1..Len(call.validation.warnings) : call.validation.warnings[i] = Msg(text)

\* the record is within the absolute bounds and its USD fields are
\* quantity times price (rounded to cents)
WithinBounds(rec) ==
    /\ IsNum(rec.price_usd)
    /\ rec.price_usd >= 10
    /\ rec.price_usd <= 1000 * UNIT
    /\ rec.burned_supply >= 0
    /\ rec.treasury_supply >= 0
    /\ rec.on_chain_liquidity_usd >= 0
    /\ rec.burned_supply_usd = RoundCents(rec.burned_supply * rec.price_usd)
    /\ rec.treasury_supply_usd = RoundCents(rec.treasury_supply * rec.price_usd)

C17_PriceBounds ==
    (ValidateCalled /\ IsNum(call.current.price_usd)) =>
        /\ call.current.price_usd < 10 =>
              (HasError("Price too low") /\ ~call.validation.isValid)
        /\ call.current.price_usd > 1000 * UNIT =>
              (HasError("Price too high") /\ ~call.validation.isValid)
        /\ call.current.price_usd >= 10 => ~HasError("Price too low")
        /\ call.current.price_usd <= 1000 * UNIT => ~HasError("Price too high")

\* a price just above 1000, with a previous day's record supplied
C17_Witness ==
    /\ ValidateCalled
    /\ call.previous.success
    /\ call.current.price_usd = 1000 * UNIT + 1
    /\ HasError("Price too high")
    /\ ~HasError("Price too low")
    /\ ~call.validation.isValid

\* |change%| > 100 / k, for the change from old to new (a change from 0 is
\* 0% to 0 and 100% to anything else)
ChangeBeyond(old, new, k) ==
    IF old = 0 THEN new # 0 ELSE k * Abs(new - old) > Abs(old)

\* C18: with a previous day's record, a price change beyond 50% is reported
\* as the error 'Extreme price change'; one beyond 25% and up to 50% as the
\* warning 'Large price change' and no price-change error; one up to 25% as
\* neither.
C18_PriceChangeThresholds ==
    (ValidateCalled /\ call.previous.success /\ IsNum(call.current.price_usd)) =>
        LET old == call.previous.data.price_usd
            new == call.current.price_usd
        IN /\ ChangeBeyond(old, new, 2) =>
                (HasError("Extreme price change") /\ ~HasWarning("Large price change"))
           /\ (~ChangeBeyond(old, new, 2) /\ ChangeBeyond(old, new, 4)) =>
                (HasWarning("Large price change") /\ ~HasError("Extreme price change"))
           /\ ~ChangeBeyond(old, new, 4) =>
                (~HasWarning("Large price change") /\ ~HasError("Extreme price change"))

\* a rise of exactly 50%: a warning, no error, the record valid
C18_Witness ==
    /\ ValidateCalled
    /\ call.previous.success
    /\ call.previous.data.price_usd = 15000
    /\ call.current.price_usd = 22500
    /\ HasWarning("Large price change")
    /\ ~HasError("Extreme price change")
    /\ call.validation.isValid

SupplyChangeBeyondHalf ==
    \/ ChangeBeyond(call.previous.data.burned_supply, call.current.burned_supply, 2)
    \/ ChangeBeyond(call.previous.data.treasury_supply, call.current.treasury_supply, 2)

\* C19: with a previous day's record, a change of burned_supply or of
\* treasury_supply beyond 50% adds a warning (one that is not the price or
\* the liquidity warning) and no supply-change error.
C19_SupplyChangeWarns ==
    (ValidateCalled /\ call.previous.success /\ SupplyChangeBeyondHalf) =>
        /\ \E i \in 1..Len(call.validation.warnings) :
              call.validation.warnings[i] \notin
                  {Msg("Large price change"), Msg("Large liquidity change")}
        /\ ~HasError("Extreme total supply change")
        /\ ~HasError("Extreme circulating supply change")

\* C20: with a previous day's price above 0, a current price of exactly 0
\* is reported as the error 'Price dropped to zero' and the record is
\* invalid.
C20_PriceDroppedToZero ==
    (ValidateCalled /\ call.previous.success /\ call.current.price_usd = 0
       /\ call.previous.data.price_usd > 0) =>
        /\ HasError("Price dropped to zero")
        /\ ~call.validation.isValid

\* previous price 0.15, current price 0
C20_Witness ==
    /\ ValidateCalled
    /\ call.previous.success
    /\ call.previous.data.price_usd = 15000
    /\ call.current.price_usd = 0
    /\ HasError("Price dropped to zero")
    /\ call.validation.errors[Len(call.validation.errors)] = Msg("Price dropped to zero")

\* |actual - expected| is more than 1% of a positive expected value
OffByMoreThanOnePercent(expected, actual) ==
    expected > 0 /\ Abs(actual - expected) > expected \div 100

\* C21: validateData reports a 'USD value calculation mismatch' error when
\* burned_supply_usd is more than 1% off burned_supply times price_usd, and
\* when treasury_supply_usd is more than 1% off treasury_supply times
\* price_usd; with an expected value of exactly 0 the check is skipped.
C21_UsdMismatchReported ==
    (ValidateCalled /\ IsNum(call.current.price_usd) /\ call.current.price_usd >= 0
       /\ call.current.burned_supply >= 0 /\ call.current.treasury_supply >= 0) =>
        LET burnedOff == OffByMoreThanOnePercent(
                             call.current.burned_supply * call.current.price_usd,
                             call.current.burned_supply_usd)
            treasuryOff == OffByMoreThanOnePercent(
                             call.current.treasury_supply * call.current.price_usd,
                             call.current.treasury_supply_usd)
        IN (burnedOff \/ treasuryOff) <=> HasError("USD value calculation mismatch")

LiquidityBeyondDouble(old, new) == old # 0 /\ Abs(new - old) > Abs(old)

\* the call's record with the previous day's liquidity in place of its own
WithPreviousLiquidity ==
    [call.current EXCEPT !.on_chain_liquidity_usd =
                            call.previous.data.on_chain_liquidity_usd]

\* C22: with a previous day's record, a liquidity change beyond 100% (and
\* no smaller one) adds the warning 'Large liquidity change'; a change of
\* liquidity adds no error: the errors, and so isValid, are those of the
\* same record with the liquidity unchanged.
C22_LiquidityChangeWarnsOnly ==
    (ValidateCalled /\ call.previous.success) =>
        /\ LiquidityBeyondDouble(call.previous.data.on_chain_liquidity_usd,
                                 call.current.on_chain_liquidity_usd)
             <=> HasWarning("Large liquidity change")
        /\ call.current.on_chain_liquidity_usd >= 0 =>
              /\ call.validation.errors
                   = validateData(WithPreviousLiquidity, call.previous).errors
              /\ call.validation.isValid
                   = validateData(WithPreviousLiquidity, call.previous).isValid

NothingElseChanged ==
    /\ call.current.burned_supply = call.previous.data.burned_supply
    /\ call.current.treasury_supply = call.previous.data.treasury_supply
    /\ call.current.price_usd = call.previous.data.price_usd
    /\ call.current.burned_supply_usd = call.previous.data.burned_supply_usd
    /\ call.current.treasury_supply_usd = call.previous.data.treasury_supply_usd

\* liquidity 2.5 times the previous day's, nothing else changed: valid,
\* with the warning
C22_Witness ==
    /\ ValidateCalled
    /\ call.previous.success
    /\ NothingElseChanged
    /\ call.previous.data.on_chain_liquidity_usd = 100 * UNIT
    /\ call.current.on_chain_liquidity_usd = 250 * UNIT
    /\ call.validation.isValid
    /\ call.validation.warnings = <<Msg("Large liquidity change")>>

ExactlyDoubled ==
    /\ ValidateCalled
    /\ call.previous.success
    /\ NothingElseChanged
    /\ WithinBounds(call.current)
    /\ call.previous.data.on_chain_liquidity_usd > 0
    /\ call.current.on_chain_liquidity_usd
         = 2 * call.previous.data.on_chain_liquidity_usd

-----------------------------------------------------------------------------
(* Further properties of the indexing operation (checked under Spec)       *)

\* the response carries a success flag, the target date, a message and the
\* elapsed execution time
CarriesOutcome(out) ==
    /\ out.body
    /\ out.success \in BOOLEAN
    /\ out.date = Today
    /\ out.message # ""
    /\ out.executionTime = TRUE

\* C26 as stated: every terminal outcome of a handler invocation carries a
\* success flag, the target date, a message and the execution time, the
\* method-not-allowed outcome included
C26_AsStated ==
    \A r \in Runs : (Done(r) /\ Handler(r)) => CarriesOutcome(run[r].out)

\* C26 (amended): every terminal outcome of a handler invocation that passed
\* the method check carries a success flag, the target date, a message and
\* the execution time (the skip outcome and each FAILED outcome included);
\* the method-not-allowed outcome carries success = false, the date and its
\* message but no execution time
C26_TerminalOutcomeFields ==
    \A r \in Runs :
        (Done(r) /\ Handler(r)) =>
            IF run[r].out.status = 405
            THEN /\ run[r].out.body /\ ~run[r].out.success
                 /\ run[r].out.date = Today
                 /\ run[r].out.message = "Method not allowed"
                 /\ run[r].out.executionTime = FALSE
            ELSE PassedMethodCheck(r) => CarriesOutcome(run[r].out)

\* a handler invocation has ended FAILED with all four fields
C26_Witness ==
    \E r \in Runs :
        /\ Done(r) /\ Handler(r) /\ run[r].out.status = 500
        /\ run[r].out.message \in FailureMessages
        /\ CarriesOutcome(run[r].out)

\* C27: every record the indexing operation writes, fetched or fallback, has
\* burned_supply_usd and treasury_supply_usd within 1% of quantity times
\* price_usd, for non-negative quantities and prices in [0.0001, 1000].
C27_WrittenUsdWithinOnePercent ==
    \A i \in 1..Len(puts) :
        LET rec == puts[i].content IN
        (/\ IsNum(rec.price_usd)
         /\ rec.price_usd >= MIN_PRICE_USD /\ rec.price_usd <= MAX_PRICE_USD
         /\ rec.burned_supply >= 0 /\ rec.treasury_supply >= 0) =>
            /\ ~OffByMoreThanOnePercent(rec.burned_supply * rec.price_usd,
                                        rec.burned_supply_usd)
            /\ ~OffByMoreThanOnePercent(rec.treasury_supply * rec.price_usd,
                                        rec.treasury_supply_usd)

\* the invocation went to the fallback builder: its fetch or its validation failed
FellBack(r) == run[r].kind \in {"fallback_fetch", "fallback_validation"}

NoFallbackMessages ==
    { "Data fetch failed and no fallback available",
      "Data validation failed and no fallback available" }

\* C32: when the store has no record for the day before today, a run whose
\* fetch or validation failed ends FAILED without attempting a store write
\* and leaves the store as it was, also when records of earlier days exist.
C32_NoPreviousDayRunFails ==
    \A r \in Runs :
        (Done(r) /\ FellBack(r) /\ ~HasBlob(store, PreviousName)) =>
            /\ ~run[r].out.success
            /\ run[r].out.message \in NoFallbackMessages
            /\ run[r].nPut = 0
            /\ ~run[r].stored
            /\ PutsBy(r) = <<>>
            /\ puts = <<>> => store \in InitialStores

\* the store holds the record of two days ago only; the fetch failed and the
\* run ended FAILED with the store untouched
C32_Witness ==
    \E r \in Runs :
        /\ Done(r) /\ run[r].kind = "fallback_fetch"
        /\ store = {SeedBlob(SeedOlder)}
        /\ run[r].out.status = 500
        /\ run[r].nPut = 0
        /\ puts = <<>>

\* C33: an invocation issues at most one store write; a failed write is not
\* retried and ends the run FAILED with the storage error among the
\* outcome's errors; no run writes both a fresh and a fallback record.
C33_AtMostOneWrite ==
    \A r \in Runs :
        /\ run[r].nPut <= 1
        /\ Len(PutsBy(r)) <= 1
        /\ run[r].nPut = 1 => Done(r)
        /\ (Done(r) /\ run[r].nPut = 1 /\ ~run[r].stored) =>
              /\ ~run[r].out.success
              /\ run[r].out.message \in FailureMessages
              /\ \E i \in 1..Len(run[r].out.errors) :
                    run[r].out.errors[i] = Msg("Blob store error")
              /\ PutsBy(r) = <<>>

\* a run whose write of a fallback record failed: one attempt, FAILED
C33_Witness ==
    \E r \in Runs :
        /\ Done(r) /\ run[r].kind = "fallback_validation"
        /\ run[r].nPut = 1 /\ ~run[r].stored
        /\ run[r].out.status = 500
        /\ PutsBy(r) = <<>>

\* the record passes the absolute-bounds phase of the validator
PassesAbsoluteBounds(rec) ==
    /\ IsNum(rec.price_usd)
    /\ rec.price_usd >= MIN_PRICE_USD /\ rec.price_usd <= MAX_PRICE_USD
    /\ IsNum(rec.burned_supply) /\ rec.burned_supply >= 0
    /\ IsNum(rec.treasury_supply) /\ rec.treasury_supply >= 0
    /\ IsNum(rec.on_chain_liquidity_usd) /\ rec.on_chain_liquidity_usd >= 0

\* C35: every record the indexing operation writes, on the fresh path and on
\* both fallback paths, passes the absolute-bounds phase (the store holding
\* only such records at the start).
C35_WrittenRecordsWithinBounds ==
    \A i \in 1..Len(puts) : PassesAbsoluteBounds(puts[i].content)

\* invocation r's read of the previous day's record, which the store holds,
\* fails in this step (the await of getValidationContext)
PreviousReadFails(r) ==
    /\ run[r].pc = "context"
    /\ run'[r].pc # "context"
    /\ HasBlob(store, PreviousName)
    /\ ~run'[r].hasPrevious

\* C36: when the read of the previous day's record fails with a storage
\* error, the record being present, validation runs the absolute-bounds
\* phase only (no comparative error, no warning); a fetched record that
\* passes the absolute bounds goes to the store as a fresh record, and the
\* outcome of its write does not mention the failed read.
C36_FailedPreviousReadSkipsComparison ==
    /\ [][\A r \in Runs :
            PreviousReadFails(r) =>
                /\ run'[r].validation.warnings = <<>>
                /\ run'[r].validation.errors = validateBasicValues(run[r].fetchResult.data)
                /\ PassesAbsoluteBounds(run[r].fetchResult.data) =>
                      /\ run'[r].pc = "store"
                      /\ run'[r].kind = "fresh"
                      /\ run'[r].toStore = run[r].fetchResult.data
                      /\ store' = store]_vars
    /\ [](\A r \in Runs :
            (/\ Done(r) /\ run[r].kind = "fresh" /\ run[r].stored
             /\ HasBlob(store, PreviousName) /\ ~run[r].hasPrevious) =>
                /\ run[r].out.success
                /\ ~run[r].out.usedFallback
                /\ run[r].out.warnings = <<>>
                /\ run[r].out.errors = <<>>
                /\ run[r].out.message \in {"Data indexed successfully",
                                           "Data updated successfully"})

\* the price doubled overnight, the read of yesterday's record failed, and
\* the record was stored as fetched with nothing reported
C36_Witness ==
    \E r \in Runs :
        /\ Done(r) /\ run[r].kind = "fresh" /\ run[r].stored
        /\ HasBlob(store, PreviousName) /\ ~run[r].hasPrevious
        /\ ContentOf(store, PreviousName).price_usd = 15000
        /\ ContentOf(store, TodayName).price_usd = 30000
        /\ run[r].out.success
        /\ run[r].out.warnings = <<>>

-----------------------------------------------------------------------------
(* A further property of createFallbackData (checked under SpecValidation)  *)

\* C30: createFallbackData treats a numeric 0 in the candidate as missing: a
\* candidate with price_usd = 0 or on_chain_liquidity_usd = 0 yields a
\* record holding the previous day's value for that field.
C30_ZeroTreatedAsMissing ==
    FallbackBuilt =>
        /\ call.current.price_usd = 0 =>
              call.fallback.data.price_usd = call.previous.data.price_usd
        /\ call.current.on_chain_liquidity_usd = 0 =>
              call.fallback.data.on_chain_liquidity_usd
                  = call.previous.data.on_chain_liquidity_usd

\* a candidate with price 0 and liquidity 0 got both from the previous day
C30_Witness ==
    /\ FallbackBuilt
    /\ call.current.price_usd = 0
    /\ call.current.on_chain_liquidity_usd = 0
    /\ call.fallback.data.price_usd = 15000
    /\ call.fallback.data.on_chain_liquidity_usd = 100 * UNIT

ComparedWithPrevious == ValidateCalled /\ call.previous.success

\* C34: the percent change is (new - old) / old * 100 for old # 0, 0 when
\* old and new are both 0 and 100 when old is 0 and new is not: a non-zero
\* price after a previous-day price of 0 is an 'Extreme price change' error
\* (100 > 50), liquidity appearing after a previous-day liquidity of 0 gives
\* no liquidity warning (100 is not beyond 100), two zeroes give neither, and
\* for old # 0 the limits are crossed exactly when |new - old| is more than
\* half of |old| (price, 50%) or more than |old| (liquidity, 100%).
C34_PercentChange ==
    ComparedWithPrevious =>
        LET oldPrice == call.previous.data.price_usd
            newPrice == call.current.price_usd
            oldLiq   == call.previous.data.on_chain_liquidity_usd
            newLiq   == call.current.on_chain_liquidity_usd
        IN /\ (oldPrice = 0 /\ IsNum(newPrice) /\ newPrice # 0) =>
                 HasError("Extreme price change") /\ ~call.validation.isValid
           /\ (oldPrice = 0 /\ newPrice = 0) =>
                 ~HasError("Extreme price change") /\ ~HasWarning("Large price change")
           /\ (oldLiq = 0 /\ IsNum(newLiq)) => ~HasWarning("Large liquidity change")
           /\ (IsNum(oldPrice) /\ oldPrice # 0 /\ IsNum(newPrice)) =>
                 (HasError("Extreme price change")
                    <=> 2 * Abs(newPrice - oldPrice) > Abs(oldPrice))
           /\ (IsNum(oldLiq) /\ oldLiq # 0 /\ IsNum(newLiq)) =>
                 (HasWarning("Large liquidity change")
                    <=> Abs(newLiq - oldLiq) > Abs(oldLiq))

\* a price of 0.15 after a previous-day price of 0 was reported as extreme
C34_Witness ==
    /\ ComparedWithPrevious
    /\ call.previous.data.price_usd = 0
    /\ call.current.price_usd = 15000
    /\ HasError("Extreme price change")
    /\ ~HasWarning("Large liquidity change")

-----------------------------------------------------------------------------
(* Properties of two invocations side by side (checked under SpecConcurrent) *)

\* both invocations found no record for today and went on to fetch
BothProceeded ==
    \A r \in Runs : ~run[r].existedAtStart /\ ~run[r].dataExists /\ run[r].nFetch = 1

\* C31: two invocations running side by side for the same date with no
\* record present can both pass the existence check and both fetch and
\* write; the store then holds exactly one record for the date, and its
\* content is that of the write that landed last.
C31_ConcurrentRunsLastWriteWins ==
    /\ Cardinality({b \in store : b.pathname = TodayName}) <= 1
    /\ puts # <<>> =>
          /\ HasBlob(store, TodayName)
          /\ ContentOf(store, TodayName) = puts[Len(puts)].content

\* both invocations passed the existence check before either wrote, both
\* wrote, and the two contents differ: the store holds the second one
C31_Witness ==
    /\ BothProceeded
    /\ Len(puts) = 2
    /\ puts[1].by # puts[2].by
    /\ puts[1].content # puts[2].content
    /\ \A r \in Runs : run[r].stored /\ run[r].out.success
    /\ ContentOf(store, TodayName) = puts[2].content
    /\ Cardinality(store) = 1

-----
(* Properties of the read endpoint (checked under SpecRead)                 *)

\* the days of the records in a result, in the order returned
DatesOf(data) == [i \in 1..Len(data) |-> data[i].date]

\* the newest n of the days 1..k, newest first
NewestDays(n, k) == [i \in 1..(IF n < k THEN n ELSE k) |-> k - i + 1]

StoredDays == Cardinality(store)

RangeRead == call.op = "getDataRange" /\ call.date >= 1 /\ StoredDays >= 1

EndpointRangeRead ==
    /\ call.op = "tokenomics" /\ call.method = "GET"
    /\ call.days \in {"", "30", "90", "180"}
    /\ StoredDays >= 1

DaysAsked == IF call.days = "" THEN 30 ELSE ParseInt(call.days)

\* the storage answered: the listing and every content read asked for
StorageAnswered(n) ==
    /\ call.listOk
    /\ \A d \in call.unreadable : d <= StoredDays - n \/ d > StoredDays

\* C24 as stated: a range read for N days over k >= 1 stored records returns
\* the min(N, k) newest records, newest first, and the endpoint reports
\* their number as meta.total_records
C24_AsStated ==
    /\ RangeRead =>
          /\ call.range.success
          /\ DatesOf(call.range.data) = NewestDays(call.date, StoredDays)
    /\ EndpointRangeRead =>
          /\ call.reply.status = 200
          /\ DatesOf(call.reply.series.price_usd) = NewestDays(DaysAsked, StoredDays)
          /\ call.reply.meta.total_records = Len(call.reply.series.price_usd)

\* C24 (amended): a range read for N days over k >= 1 stored records
\* returns, when the listing and every content read succeed, the min(N, k)
\* newest records, newest first, with meta.total_records their number; when
\* the listing or one content read fails, the read fails as a whole and the
\* endpoint answers 500
C24_RangeReadReturnsNewest ==
    /\ RangeRead =>
          IF StorageAnswered(call.date)
          THEN /\ call.range.success
               /\ DatesOf(call.range.data) = NewestDays(call.date, StoredDays)
          ELSE ~call.range.success /\ call.range.data = <<>>
    /\ EndpointRangeRead =>
          IF StorageAnswered(DaysAsked)
          THEN /\ call.reply.status = 200
               /\ DatesOf(call.reply.series.price_usd) = NewestDays(DaysAsked, StoredDays)
               /\ DatesOf(call.reply.series.burned_supply) = NewestDays(DaysAsked, StoredDays)
               /\ DatesOf(call.reply.series.treasury_supply) = NewestDays(DaysAsked, StoredDays)
               /\ DatesOf(call.reply.series.on_chain_liquidity_usd)
                     = NewestDays(DaysAsked, StoredDays)
               /\ call.reply.meta.total_records = Len(call.reply.series.price_usd)
               /\ call.reply.meta.last_updated = StoredDays
          ELSE call.reply.status = 500 /\ call.reply.error = "Data fetch failed"

\* a store of more than thirty days is read through the endpoint for 30 days
C24_Witness ==
    /\ EndpointRangeRead /\ call.days = "30" /\ StoredDays > 30
    /\ call.reply.status = 200
    /\ call.reply.meta.total_records = 30

\* C25: a GET with an accepted days value over an empty store is answered
\* 404 "No data found", not 500
C25_EmptyStoreAnswers404 ==
    (/\ call.op = "tokenomics" /\ call.method = "GET"
     /\ call.days \in {""} \cup ValidDays
     /\ store = {})
    => call.reply.status = 404 /\ call.reply.error = "No data found"

\* C37: a read with days=all returns every record held in the store, also
\* when the listing comes in more than one page (the store answering every
\* call).
C37_AllReturnsEveryRecord ==
    (/\ call.op = "tokenomics" /\ call.method = "GET" /\ call.days = "all"
     /\ StoredDays >= 1
     /\ call.listOk
     /\ \A d \in call.unreadable : d > StoredDays) =>
        /\ call.reply.status = 200
        /\ call.reply.meta.total_records = StoredDays
        /\ DatesOf(call.reply.series.price_usd) = NewestDays(StoredDays, StoredDays)

------------------------------------------------------------------------------
(* A property of storeData and getData (checked under SpecStorage)          *)

\* the writes the store accepted for the date, oldest first
WritesFor(date) == SelectSeq(puts, LAMBDA w : w.pathname = getFileName(date))

\* C38: after storeData(r) succeeded for a record of date D, getData(D)
\* succeeds and returns the content of the last such write (r with
\* updated_at filled in).
C38_ReadReturnsLastWrite ==
    (call.op = "getData" /\ WritesFor(call.date) # <<>>) =>
        /\ call.previous.success
        /\ call.previous.data =
             WritesFor(call.date)[Len(WritesFor(call.date))].content

------------------------------------------------------------------------------
(* Termination of the indexing operation (checked under SpecFair)            *)

InProgress(r) == run[r].pc \notin {"idle", "done", "gone"}

\* skipped, STORED, STORED_FALLBACK or FAILED
TerminalOutcome(r) ==
    /\ Done(r)
    /\ \/ run[r].out.message = "Data already indexed for today" /\ run[r].nPut = 0
       \/ run[r].out.success /\ ~run[r].out.usedFallback /\ run[r].stored
       \/ run[r].out.success /\ run[r].out.usedFallback /\ run[r].stored
       \/ ~run[r].out.success /\ run[r].out.status \in {0, 500}

\* C39: every invocation that has begun its work eventually reaches a
\* terminal outcome (skipped, STORED, STORED_FALLBACK or FAILED), its awaits
\* settling; on the way it fetches at most once and writes at most once.
C39_EveryInvocationTerminates ==
    /\ \A r \in Runs : InProgress(r) ~> TerminalOutcome(r)
    /\ [](\A r \in Runs : run[r].nFetch <= 1 /\ run[r].nPut <= 1)

C39_Witness ==
    \E r \in Runs :
        /\ TerminalOutcome(r)
        /\ run[r].nFetch = 1
        /\ run[r].nPut = 1
        /\ run[r].stored
        /\ run[r].out.usedFallback

------------------------------------------------------------------------------
(* A failing existence lookup (checked under Spec)                          *)

\* C40: an existence lookup that fails reads as "absent"; a cron or
\* non-forced manual run whose lookup failed while the day's record was
\* there does not skip but fetches, and what it writes replaces that record.
C40_FailedLookupReadsAbsent ==
    \A r \in Runs :
        (run[r].pc \notin {"idle", "exists", "gone"} /\ run[r].lookupFailed) =>
            /\ ~run[r].dataExists
            /\ (/\ run[r].entry \in {"cron", "manual"}
                /\ ~run[r].force
                /\ run[r].existedAtStart) =>
                   /\ run[r].pc # "fetch" => run[r].nFetch = 1
                   /\ (Done(r) /\ run[r].stored) =>
                         /\ Len(puts) >= 2
                         /\ puts[Len(puts)].by = r
                         /\ puts[Len(puts)].pathname = TodayName
                         /\ ContentOf(store, TodayName) = puts[Len(puts)].content

C40_Witness ==
    \E r \in Runs :
        /\ Done(r)
        /\ run[r].entry = "cron"
        /\ run[r].lookupFailed
        /\ run[r].existedAtStart
        /\ run[r].stored
        /\ Len(puts) = 2
        /\ puts[1].pathname = TodayName
        /\ puts[1].content.price_usd # puts[2].content.price_usd
        /\ ContentOf(store, TodayName) = puts[2].content

====
